---- MODULE Spec2Model ----
(***************************************************************************)
(* MediaTypes.js: the registry of file extensions and media types, its     *)
(* grammar validators, manual edits (set, delete), lookup (get), and the   *)
(* synchronization cycle (update) against the Apache, Debian and NGINX     *)
(* documents.                                                              *)
(*                                                                         *)
(* JavaScript strings are TLA+ strings; they are taken apart character by  *)
(* character with SubSeq, so that the regular expressions, trim,           *)
(* toLowerCase, sort and path.parse are computed, not assumed.             *)
(***************************************************************************)
EXTENDS Integers, Sequences, FiniteSets, TLC

(***************************************************************************)
(* Characters and strings                                                  *)
(***************************************************************************)

\* The characters that occur in the modelled strings, in the order of their
\* UTF-16 code units (ASCII order); tab, line feed and carriage return come first.
AsciiOrder == " !#$%&'()*+,-./0123456789:;<=>?@ABCDEFGHIJKLMNOPQRSTUVWXYZ[]^_abcdefghijklmnopqrstuvwxyz{|}~"

LowerLetters == "abcdefghijklmnopqrstuvwxyz"

UpperLetters == "ABCDEFGHIJKLMNOPQRSTUVWXYZ"

Digits == "0123456789"

CharAt(s, i) == SubSeq(s, i, i)

CharsOf(s) == { CharAt(s, i) : i \in 1..Len(s) }

LowerSet == CharsOf(LowerLetters)

UpperSet == CharsOf(UpperLetters)

DigitSet == CharsOf(Digits)

\* \s of a JavaScript regular expression, and the characters trim() removes
WhiteSpace == {" ", "\t", "\n", "\r"}

\* A number per character that orders the characters as their code units do
\* (what the default comparator of Array.prototype.sort compares)
CharCode == [c \in CharsOf(AsciiOrder) \cup {"\t", "\n", "\r"} |->
               IF c = "\t" THEN 9
               ELSE IF c = "\n" THEN 10
               ELSE IF c = "\r" THEN 13
               ELSE 31 + (CHOOSE i \in 1..Len(AsciiOrder) : CharAt(AsciiOrder, i) = c)]

LowerOf == [c \in UpperSet |->
              CharAt(LowerLetters, CHOOSE i \in 1..26 : CharAt(UpperLetters, i) = c)]

\* String.prototype.toLowerCase
RECURSIVE toLowerCase(_)
toLowerCase(s) ==
  IF s = "" THEN ""
  ELSE (IF Head(s) \in UpperSet THEN LowerOf[Head(s)] ELSE Head(s)) \o toLowerCase(Tail(s))

RECURSIVE trimStart(_)
trimStart(s) ==
  IF s = "" THEN ""
  ELSE IF Head(s) \in WhiteSpace THEN trimStart(Tail(s)) ELSE s

RECURSIVE trimEnd(_)
trimEnd(s) ==
  IF s = "" THEN ""
  ELSE IF CharAt(s, Len(s)) \in WhiteSpace THEN trimEnd(SubSeq(s, 1, Len(s) - 1)) ELSE s

RECURSIVE trimStartNewlines(_)
trimStartNewlines(s) ==
  IF s = "" THEN ""
  ELSE IF Head(s) = "\n" THEN trimStartNewlines(Tail(s)) ELSE s

\* String.prototype.trim
trim(s) == trimEnd(trimStart(s))

\* a < b in the order of the default comparator of Array.prototype.sort
RECURSIVE StringLess(_, _)
StringLess(a, b) ==
  IF b = "" THEN FALSE
  ELSE IF a = "" THEN TRUE
  ELSE IF Head(a) = Head(b) THEN StringLess(Tail(a), Tail(b))
  ELSE CharCode[Head(a)] < CharCode[Head(b)]

\* The position of the first / last occurrence of the character c in s, 0 if none
FirstIndexOf(s, c) ==
  IF c \in CharsOf(s) THEN CHOOSE i \in 1..Len(s) : CharAt(s, i) = c /\ \A j \in 1..(i - 1) : CharAt(s, j) # c
  ELSE 0

LastIndexOf(s, c) ==
  IF c \in CharsOf(s) THEN CHOOSE i \in 1..Len(s) : CharAt(s, i) = c /\ \A j \in (i + 1)..Len(s) : CharAt(s, j) # c
  ELSE 0

\* s.replace('.', ''): only the first occurrence is replaced
replaceFirstDot(s) ==
  LET i == FirstIndexOf(s, ".")
  IN IF i = 0 THEN s ELSE SubSeq(s, 1, i - 1) \o SubSeq(s, i + 1, Len(s))

EndsWith(s, suffix) ==
  /\ Len(suffix) <= Len(s)
  /\ SubSeq(s, Len(s) - Len(suffix) + 1, Len(s)) = suffix

(***************************************************************************)
(* Grammar validator                                                       *)
(***************************************************************************)

\* [a-z0-9] with the i flag
AlphaNum == LowerSet \cup UpperSet \cup DigitSet

\* [a-z0-9!#$&\-^_+] with the i flag
ExtensionChars == AlphaNum \cup {"!", "#", "$", "&", "-", "^", "_", "+"}

\* [a-z0-9!#$&\-^_.+] with the i flag
SubtypeChars == ExtensionChars \cup {"."}

MaxTypeLen == 64

MaxXTypeLen == 62

MaxSubtypeLen == 64

\* #formatExtension.test(s): /^[a-z0-9!#$&\-^_+]+$/i
formatExtension(s) == s # "" /\ CharsOf(s) \subseteq ExtensionChars

\* The type alternative: x-[a-z0-9]{1,62} | [a-z0-9]{1,64}
typeMatches(t) ==
  \/ /\ Len(t) >= 3
     /\ toLowerCase(SubSeq(t, 1, 2)) = "x-"
     /\ Len(t) - 2 <= MaxXTypeLen
     /\ CharsOf(SubSeq(t, 3, Len(t))) \subseteq AlphaNum
  \/ /\ Len(t) \in 1..MaxTypeLen
     /\ CharsOf(t) \subseteq AlphaNum

\* #formatMediaType.test(s):
\* /^(?<type>(x-[a-z0-9]{1,62}|[a-z0-9]{1,64}))\/(?<subtype>[a-z0-9!#$&\-^_.+]{1,64})$/i
\* Neither alternative of the type nor the subtype class can match "/", so the
\* separator is the first "/" and the subtype is all that follows it.
formatMediaType(s) ==
  LET i == FirstIndexOf(s, "/")
  IN /\ i > 1
     /\ typeMatches(SubSeq(s, 1, i - 1))
     /\ Len(s) - i \in 1..MaxSubtypeLen
     /\ CharsOf(SubSeq(s, i + 1, Len(s))) \subseteq SubtypeChars

(***************************************************************************)
(* JavaScript values and objects                                           *)
(***************************************************************************)

\* A JavaScript value that a registry slot, a delta slot or a return value can
\* hold: undefined, an array of strings, a boolean or a function object.
JSUndefined == [t |-> "undefined", a |-> <<>>, b |-> FALSE]

JSArray(a) == [t |-> "array", a |-> a, b |-> FALSE]

JSBoolean(b) == [t |-> "boolean", a |-> <<>>, b |-> b]

JSFunction == [t |-> "function", a |-> <<>>, b |-> FALSE]

\* An argument passed by a caller: a string, or a value of another type
\* (typeof arg !== 'string') of which only its printed form is kept.
StringArg(s) == [isString |-> TRUE, v |-> s]

OtherArg(printed) == [isString |-> FALSE, v |-> printed]

\* A whole number of milliseconds, held as thousands and units because the
\* numbers of JavaScript go beyond the integers of the model checker:
\* Milliseconds(86400, 0) is 86400000 and Milliseconds(-1, 999) is -1
Milliseconds(thousands, units) == [thousands |-> thousands, units |-> units]

NumberLess(x, y) ==
  x.thousands < y.thousands \/ (x.thousands = y.thousands /\ x.units < y.units)

Zero == Milliseconds(0, 0)

\* The values assigned to updateInterval: a finite number, undefined, or
\* something that is no finite number (printed as JavaScript prints it)
NumberArg(n) == [isString |-> FALSE, v |-> "number", n |-> n]

UndefinedArg == [isString |-> FALSE, v |-> "undefined", n |-> Zero]

InvalidIntervalArg(printed) ==
  [isString |-> printed \in {"''", "'xyz'"}, v |-> printed, n |-> Zero]

\* A plain object ({} or the result of JSON.parse) is a function from its own
\* keys to values; its prototype is Object.prototype, whose property names
\* that are lower case and pass #formatExtension are these two.
EmptyObject == [k \in {} |-> JSUndefined]

ObjectPrototypeKeys == {"constructor", "__proto__"}

\* key in obj
HasProperty(obj, key) == key \in DOMAIN obj \/ key \in ObjectPrototypeKeys

\* obj[key]
GetProperty(obj, key) ==
  IF key \in DOMAIN obj THEN obj[key]
  ELSE IF key \in ObjectPrototypeKeys THEN JSFunction
  ELSE JSUndefined

\* obj[key] = value, for a key that is not an accessor of the prototype
PutProperty(obj, key, value) ==
  [k \in DOMAIN obj \cup {key} |-> IF k = key THEN value ELSE obj[k]]

\* delete obj[key]
DeleteProperty(obj, key) == [k \in DOMAIN obj \ {key} |-> obj[k]]

\* Array.prototype.includes / indexOf (1-based, 0 when absent) / splice(i, 1)
includes(a, x) == \E i \in 1..Len(a) : a[i] = x

indexOf(a, x) ==
  IF includes(a, x) THEN CHOOSE i \in 1..Len(a) : a[i] = x /\ \A j \in 1..(i - 1) : a[j] # x
  ELSE 0

splice(a, i) == SubSeq(a, 1, i - 1) \o SubSeq(a, i + 1, Len(a))

\* Array.prototype.sort with the default comparator
RECURSIVE insertSorted(_, _)
insertSorted(a, x) ==
  IF a = <<>> THEN <<x>>
  ELSE IF StringLess(x, a[Len(a)]) THEN Append(insertSorted(SubSeq(a, 1, Len(a) - 1), x), a[Len(a)])
  ELSE Append(a, x)

RECURSIVE sort(_)
sort(a) ==
  IF a = <<>> THEN <<>>
  ELSE insertSorted(sort(SubSeq(a, 1, Len(a) - 1)), a[Len(a)])

\* JSON.stringify of the registry followed by JSON.parse: a property whose
\* value is undefined or a function is left out of the text.
JSONRoundTrip(obj) ==
  [k \in { x \in DOMAIN obj : obj[x].t = "array" } |-> obj[k]]

(***************************************************************************)
(* path.parse(path).ext (POSIX)                                            *)
(***************************************************************************)

RECURSIVE stripTrailingSlashes(_)
stripTrailingSlashes(p) ==
  IF p = "" THEN ""
  ELSE IF CharAt(p, Len(p)) = "/" THEN stripTrailingSlashes(SubSeq(p, 1, Len(p) - 1)) ELSE p

\* The extension starts at the last "." of the last path component, unless
\* that "." is the component's first character or the component is "..".
parseExt(path) ==
  LET p == stripTrailingSlashes(path)
      base == SubSeq(p, LastIndexOf(p, "/") + 1, Len(p))
      dot == LastIndexOf(base, ".")
  IN IF dot = 0 \/ dot = 1 \/ base = ".." THEN "" ELSE SubSeq(base, dot, Len(base))

(***************************************************************************)
(* Outcomes of a call                                                      *)
(***************************************************************************)

Returns(value) == [threw |-> FALSE, errName |-> "", errMsg |-> "", ret |-> value]

Throws(name, msg) == [threw |-> TRUE, errName |-> name, errMsg |-> msg, ret |-> JSUndefined]

\* The TypeError the engine raises for a property read or a method call on a
\* value that has no such property
RuntimeTypeError == Throws("TypeError", "not an array")

(***************************************************************************)
(* #updateList                                                             *)
(***************************************************************************)

\* content is the sequence of the own properties of the content object in
\* insertion order (the order for...in visits them): [k |-> key, v |-> array].
\* content[key]:
ContentGet(content, key) ==
  IF \E i \in 1..Len(content) : content[i].k = key
  THEN JSArray(content[CHOOSE i \in 1..Len(content) : content[i].k = key].v)
  ELSE IF key \in ObjectPrototypeKeys THEN JSFunction
  ELSE JSUndefined

\* content[extension].forEach(mediaType => ...) from element i on, for an
\* extension that is in the registry
RECURSIVE updateListForEach(_, _, _, _, _)
updateListForEach(mediaTypes, list, extension, incoming, i) ==
  IF i > Len(incoming) THEN [mediaTypes |-> mediaTypes, list |-> list, threw |-> FALSE]
  ELSE LET mediaType == toLowerCase(trim(incoming[i]))
           current == GetProperty(mediaTypes, extension)
           listed == GetProperty(list, extension)
       IN IF current.t # "array"
          THEN [mediaTypes |-> mediaTypes, list |-> list, threw |-> TRUE]
          ELSE IF includes(current.a, mediaType)
          THEN updateListForEach(mediaTypes, list, extension, incoming, i + 1)
          ELSE updateListForEach(
                 PutProperty(mediaTypes, extension, JSArray(sort(Append(current.a, mediaType)))),
                 PutProperty(list, extension, JSArray(Append(listed.a, mediaType))),
                 extension, incoming, i + 1)

\* The for...in loop of #updateList from property i of content on
RECURSIVE updateListFrom(_, _, _, _)
updateListFrom(mediaTypes, list, content, i) ==
  IF i > Len(content) THEN [mediaTypes |-> mediaTypes, list |-> list, threw |-> FALSE]
  ELSE LET extension == toLowerCase(trim(content[i].k))
           incoming == ContentGet(content, extension)
       IN IF HasProperty(mediaTypes, extension)
          THEN IF incoming.t # "array"
               THEN [mediaTypes |-> mediaTypes, list |-> list, threw |-> TRUE]
               ELSE LET r == updateListForEach(mediaTypes, list, extension, incoming.a, 1)
                    IN IF r.threw THEN r
                       ELSE updateListFrom(r.mediaTypes, r.list, content, i + 1)
          ELSE updateListFrom(PutProperty(mediaTypes, extension, incoming),
                              PutProperty(list, extension, incoming),
                              content, i + 1)

\* A merge that lists every media type of the content, added or not
updateList_listingAll(mediaTypes, content) ==
  [updateListFrom(mediaTypes, EmptyObject, content, 1) EXCEPT
     !.list = [key \in { content[i].k : i \in 1..Len(content) } |-> ContentGet(content, key)]]

\* A merge that keeps of the registry only what the content holds
updateList_replacing(mediaTypes, content) == updateListFrom(EmptyObject, EmptyObject, content, 1)

\* #updateList(content): the registry after the merge, the object of the newly
\* inserted media types, and whether the merge stopped on a TypeError
updateList(mediaTypes, content) == updateListFrom(mediaTypes, EmptyObject, content, 1)

(***************************************************************************)
(* get, set, delete                                                        *)
(***************************************************************************)

\* The text written to DB.json, as JSON.parse reads it back
Snapshot(mediaTypes, versions) ==
  [exists |-> TRUE, form |-> "snapshot", mediaTypes |-> JSONRoundTrip(mediaTypes),
   versions |-> versions]

\* A lookup that coerces its argument to a string instead of checking its type
get_coercing(mediaTypes, path) ==
  LET extension == toLowerCase(trim(replaceFirstDot(parseExt(path.v))))
  IN IF ~formatExtension(extension) THEN Throws("SyntaxError", "Invalid extension")
     ELSE LET found == GetProperty(mediaTypes, extension)
          IN Returns(IF found.t = "undefined" THEN JSArray(<<>>) ELSE found)

\* get(path): the outcome of the call; get assigns to nothing
get(mediaTypes, path) ==
  IF ~path.isString THEN Throws("TypeError", "Invalid path")
  ELSE LET extension == toLowerCase(trim(replaceFirstDot(parseExt(path.v))))
       IN IF ~formatExtension(extension) THEN Throws("SyntaxError", "Invalid extension")
          ELSE LET found == GetProperty(mediaTypes, extension)
               IN Returns(IF found.t = "undefined" THEN JSArray(<<>>) ELSE found)

\* Argument checks that leave the media type unchecked
checkArguments_extensionOnly(extension, mediaType) ==
  IF ~extension.isString THEN Throws("TypeError", "Invalid extension")
  ELSE IF ~formatExtension(extension.v) THEN Throws("SyntaxError", "Invalid extension")
  ELSE Returns(JSUndefined)

\* The argument checks that set and delete share
checkArguments(extension, mediaType) ==
  IF ~extension.isString THEN Throws("TypeError", "Invalid extension")
  ELSE IF ~formatExtension(extension.v) THEN Throws("SyntaxError", "Invalid extension")
  ELSE IF ~mediaType.isString THEN Throws("TypeError", "Invalid mediaType")
  ELSE IF ~formatMediaType(mediaType.v) THEN Throws("SyntaxError", "Invalid mediaType")
  ELSE Returns(JSUndefined)

WriteError == Throws("Error", "writeFileSync failed")

\* A set that catches the error of fs.writeFileSync and returns false
set_swallowing(mediaTypes, versions, db, extension, mediaType, writeOk) ==
  LET check == checkArguments(extension, mediaType)
      r == updateList(mediaTypes, <<[k |-> extension.v, v |-> <<mediaType.v>>]>>)
  IN IF check.threw
     THEN [out |-> check, mediaTypes |-> mediaTypes, db |-> db, wrote |-> FALSE]
     ELSE IF r.threw
     THEN [out |-> RuntimeTypeError, mediaTypes |-> r.mediaTypes, db |-> db, wrote |-> FALSE]
     ELSE IF ~HasProperty(r.list, extension.v)
     THEN [out |-> Returns(JSBoolean(FALSE)), mediaTypes |-> r.mediaTypes, db |-> db, wrote |-> FALSE]
     ELSE IF ~writeOk
     THEN [out |-> Returns(JSBoolean(FALSE)), mediaTypes |-> r.mediaTypes, db |-> db,
           wrote |-> FALSE]
     ELSE [out |-> Returns(JSBoolean(TRUE)), mediaTypes |-> r.mediaTypes,
           db |-> Snapshot(r.mediaTypes, versions), wrote |-> TRUE]

\* set(extension, mediaType): the outcome, the registry and the snapshot after
\* the call. writeOk tells whether fs.writeFileSync succeeds if it is called.
set(mediaTypes, versions, db, extension, mediaType, writeOk) ==
  LET check == checkArguments(extension, mediaType)
      r == updateList(mediaTypes, <<[k |-> extension.v, v |-> <<mediaType.v>>]>>)
  IN IF check.threw
     THEN [out |-> check, mediaTypes |-> mediaTypes, db |-> db, wrote |-> FALSE]
     ELSE IF r.threw
     THEN [out |-> RuntimeTypeError, mediaTypes |-> r.mediaTypes, db |-> db, wrote |-> FALSE]
     ELSE IF ~HasProperty(r.list, extension.v)
     THEN [out |-> Returns(JSBoolean(FALSE)), mediaTypes |-> r.mediaTypes, db |-> db, wrote |-> FALSE]
     ELSE IF ~writeOk
     THEN [out |-> WriteError, mediaTypes |-> r.mediaTypes, db |-> db, wrote |-> FALSE]
     ELSE [out |-> Returns(JSBoolean(TRUE)), mediaTypes |-> r.mediaTypes,
           db |-> Snapshot(r.mediaTypes, versions), wrote |-> TRUE]

\* delete(extension, mediaType)
delete(mediaTypes, versions, db, extension, mediaType, writeOk) ==
  LET check == checkArguments(extension, mediaType)
      ext == toLowerCase(trim(extension.v))
      current == GetProperty(mediaTypes, ext)
      i == indexOf(current.a, toLowerCase(trim(mediaType.v)))
      spliced == PutProperty(mediaTypes, ext, JSArray(splice(current.a, i)))
      after == IF Len(current.a) = 1 THEN DeleteProperty(mediaTypes, ext) ELSE spliced
  IN IF check.threw
     THEN [out |-> check, mediaTypes |-> mediaTypes, db |-> db, wrote |-> FALSE]
     ELSE IF ~HasProperty(mediaTypes, ext)
     THEN [out |-> Returns(JSBoolean(FALSE)), mediaTypes |-> mediaTypes, db |-> db, wrote |-> FALSE]
     ELSE IF current.t # "array"
     THEN [out |-> RuntimeTypeError, mediaTypes |-> mediaTypes, db |-> db, wrote |-> FALSE]
     ELSE IF i = 0
     THEN [out |-> Returns(JSBoolean(FALSE)), mediaTypes |-> mediaTypes, db |-> db, wrote |-> FALSE]
     ELSE IF ~writeOk
     THEN [out |-> WriteError, mediaTypes |-> after, db |-> db, wrote |-> FALSE]
     ELSE [out |-> Returns(JSBoolean(TRUE)), mediaTypes |-> after,
           db |-> Snapshot(after, versions), wrote |-> TRUE]

(***************************************************************************)
(* Source parsers: #loadApache, #loadDebian, #loadNGINX                    *)
(***************************************************************************)

\* text.split(/\n+/): the pieces between maximal runs of line feeds
RECURSIVE splitLines(_, _)
splitLines(text, piece) ==
  IF text = "" THEN <<piece>>
  ELSE IF Head(text) = "\n" THEN <<piece>> \o splitLines(trimStartNewlines(text), "")
  ELSE splitLines(Tail(text), piece \o Head(text))

\* s.split(/\s+/): the pieces between maximal runs of white space
RECURSIVE splitWhiteSpace(_, _)
splitWhiteSpace(text, piece) ==
  IF text = "" THEN <<piece>>
  ELSE IF Head(text) \in WhiteSpace THEN <<piece>> \o splitWhiteSpace(trimStart(text), "")
  ELSE splitWhiteSpace(Tail(text), piece \o Head(text))

\* The longest prefix of s without white space ([^\s]+ when not empty)
RECURSIVE firstToken(_)
firstToken(s) ==
  IF s = "" \/ Head(s) \in WhiteSpace THEN "" ELSE Head(s) \o firstToken(Tail(s))

\* line.match(/^\s*(?<mediaType>[^\s]+)\s+(?<extensions>.*)\s*$/): the token
\* after the leading white space must be followed by white space; the greedy
\* .* then takes the rest of the line. The dot matches no carriage return, so
\* what follows the first carriage return must be white space.
matchLine(line) ==
  LET body == trimStart(line)
      token == firstToken(body)
      rest == trimStart(SubSeq(body, Len(token) + 1, Len(body)))
      cr == FirstIndexOf(rest, "\r")
  IN IF token = "" \/ Len(token) = Len(body)
        \/ (cr > 0 /\ trim(SubSeq(rest, cr, Len(rest))) # "")
     THEN [matched |-> FALSE, mediaType |-> "", extensions |-> ""]
     ELSE [matched |-> TRUE, mediaType |-> token,
           extensions |-> IF cr > 0 THEN SubSeq(rest, 1, cr - 1) ELSE rest]

\* .filter(line => !/^#.*/.test(line) && line.trim() !== '')
keepLine(line) == ~(line # "" /\ Head(line) = "#") /\ trim(line) # ""

\* curr[extension] = (curr[extension] || []).concat(mediaType), on the sequence
\* of the own properties of curr; curr.constructor is inherited and has no concat
addAssociation(curr, extension, mediaType) ==
  IF \E i \in 1..Len(curr) : curr[i].k = extension
  THEN LET i == CHOOSE j \in 1..Len(curr) : curr[j].k = extension
       IN [content |-> [curr EXCEPT ![i].v = Append(@, mediaType)], threw |-> FALSE]
  ELSE IF extension \in ObjectPrototypeKeys
  THEN [content |-> curr, threw |-> TRUE]
  ELSE [content |-> Append(curr, [k |-> extension, v |-> <<mediaType>>]), threw |-> FALSE]

\* extensions.split(/\s+/).forEach(extension => ...) from token i on
RECURSIVE addExtensions(_, _, _, _)
addExtensions(curr, tokens, mediaType, i) ==
  IF i > Len(tokens) THEN [content |-> curr, threw |-> FALSE]
  ELSE LET extension == toLowerCase(trim(tokens[i]))
       IN IF formatExtension(extension)
          THEN LET r == addAssociation(curr, extension, mediaType)
               IN IF r.threw THEN r ELSE addExtensions(r.content, tokens, mediaType, i + 1)
          ELSE addExtensions(curr, tokens, mediaType, i + 1)

\* The reduce over the kept lines from line i on
RECURSIVE reduceLines(_, _, _)
reduceLines(curr, lines, i) ==
  IF i > Len(lines) THEN [content |-> curr, threw |-> FALSE]
  ELSE LET m == matchLine(lines[i])
           mediaType == toLowerCase(trim(m.mediaType))
       IN IF m.matched /\ formatMediaType(mediaType)
          THEN LET r == addExtensions(curr, splitWhiteSpace(m.extensions, ""), mediaType, 1)
               IN IF r.threw THEN r ELSE reduceLines(r.content, lines, i + 1)
          ELSE reduceLines(curr, lines, i + 1)

\* The content object of a document in the Apache/Debian format
parseTable(text) ==
  reduceLines(<<>>, SelectSeq(splitLines(text, ""), keepLine), 1)

\* text.replace(/(\s*types\s*{\s*|\s*}\s*|;)/ig, ''): at each position the
\* alternatives are tried in order; a match is removed, otherwise the
\* character is kept.
RECURSIVE stripTypesBlock(_)
stripTypesBlock(text) ==
  IF text = "" THEN ""
  ELSE LET t == trimStart(text)
           afterTypes == trimStart(SubSeq(t, 6, Len(t)))
       IN IF Len(t) >= 5 /\ toLowerCase(SubSeq(t, 1, 5)) = "types"
             /\ afterTypes # "" /\ Head(afterTypes) = "{"
          THEN stripTypesBlock(trimStart(Tail(afterTypes)))
          ELSE IF t # "" /\ Head(t) = "}"
          THEN stripTypesBlock(trimStart(Tail(t)))
          ELSE IF Head(text) = ";"
          THEN stripTypesBlock(Tail(text))
          ELSE Head(text) \o stripTypesBlock(Tail(text))

\* A response: status, the etag header ("" when the header is absent), the
\* body, and whether the body can be read (res.text() resolves).
\* #loadApache(res): the parsed fragment, or a rejection
loadApache(res) ==
  LET parsed == parseTable(res.body)
  IN IF ~res.readable \/ parsed.threw
     THEN [threw |-> TRUE, version |-> "", content |-> <<>>]
     ELSE [threw |-> FALSE, version |-> res.etag, content |-> parsed.content]

loadDebian(res) == loadApache(res)

loadNGINX(res) ==
  LET parsed == parseTable(stripTypesBlock(res.body))
  IN IF ~res.readable \/ parsed.threw
     THEN [threw |-> TRUE, version |-> "", content |-> <<>>]
     ELSE [threw |-> FALSE, version |-> res.etag, content |-> parsed.content]

(***************************************************************************)
(* Inputs                                                                  *)
(***************************************************************************)

\* results[0], results[1], results[2] of Promise.allSettled
SourceOrder == <<"apache", "debian", "nginx">>

Sources == {"apache", "debian", "nginx"}

\* The arguments callers pass as extension, as media type and as path
ExtensionArgs ==
  { StringArg(e) : e \in {"txt", "TXT", "constructor", ""} } \cup {OtherArg("undefined")}

MediaTypeArgs ==
  { StringArg(m) : m \in {"text/plain", "Text/Plain", "image/jpeg",
                          "text/plain;key=value", "application"} } \cup {OtherArg("undefined")}

PathArgs ==
  { StringArg(p) : p \in {"fileName.txt", "path/to/fileName.TXT", "fileName.jpg", "dir.d/x.constructor",
                          "fileName", "fileName.", ".txt", "", "fileName.tar gz"} } \cup {OtherArg("undefined")}

\* The well-formed arguments of the callers that run beside update()
SomeExtensions == { StringArg(e) : e \in {"txt", "TXT"} }

SomeMediaTypes == { StringArg(m) : m \in {"text/plain"} }

SomePaths == { StringArg(p) : p \in {"fileName.txt"} }

\* The associations the documents of SomeGetResponses provide
ProvidedExtensions == { StringArg(e) : e \in {"txt", "jpg"} }

ProvidedMediaTypes == { StringArg(m) : m \in {"text/plain", "image/jpeg"} }

\* What the network can answer. A response carries its status, its etag header
\* ("" when the header is missing), its body and whether the body can be read.
Response(status, etag, body, readable) ==
  [status |-> status, etag |-> etag, body |-> body, readable |-> readable]

StatusOK == 200

StatusError == 500

\* Answers to the HEAD request
ProbeResponses ==
  { Response(StatusOK, etag, "", TRUE) : etag \in {"", "v1", "v2"} }
    \cup {Response(StatusError, "v1", "", TRUE)}

\* Documents the sources publish
TableDocuments == {"text/plain txt\nimage/jpeg jpg jpg", "text/plain jpg\nimage/jpeg jpg", "invalid data"}

NginxDocuments == {"types {\n  image/jpeg jpg;\n}", "types { text/plain txt; image/jpeg jpg; }"}

Documents(source) == IF source = "nginx" THEN NginxDocuments ELSE TableDocuments

\* Answers to the GET request
GetResponses ==
  [source \in Sources |->
    { Response(StatusOK, etag, body, TRUE) : etag \in {"", "v1"}, body \in Documents(source) }
      \cup { Response(StatusError, "v1", body, TRUE) : body \in Documents(source) \ {"invalid data"} }
      \cup { Response(StatusOK, "v1", "", FALSE) }]

\* The answers of sources that publish one document each under one token
SomeProbeResponses == {Response(StatusOK, "v1", "", TRUE)}

SomeGetResponses ==
  [source \in Sources |->
    { Response(StatusOK, "v1", IF source = "nginx" THEN "types {\n  image/jpeg jpg;\n}"
                                                   ELSE "text/plain txt\nimage/jpeg jpg jpg", TRUE) }]

\* What is assigned to updateInterval or passed to the constructor
IntervalArgs ==
  { NumberArg(n) : n \in {Milliseconds(-1, 999), Zero, Milliseconds(1, 0),
                          Milliseconds(2147483, 648)} }
    \cup {UndefinedArg}
    \cup { InvalidIntervalArg(printed) :
             printed \in {"''", "'xyz'", "false", "null", "NaN", "Infinity", "{}", "[]"} }

\* The arguments and the files of an instance that is constructed again
RestartExtensions == { StringArg(e) : e \in {"txt", "TXT", "jpg"} }

SomeIntervalArgs == {UndefinedArg, NumberArg(Milliseconds(-1, 999))}

\* What DB.json can be found to be: missing, of length 0, no JSON, or a JSON
\* object without mediaTypes, without versions, without both
Forms == {"absent", "empty", "unparseable", "noMediaTypes", "noVersions", "neither"}

\* The lines of the documents handed to #loadApache and #loadDebian on their
\* own: associations, a comment, a line of white space, a media type and an
\* extension that fail the validators, upper case, tabs, a carriage return, a
\* line without extension, and an extension that is a property of every object
ParseLines ==
  {"text/plain txt", "# text/plain jpg", " ", "plain txt", "image/jpeg j*g jpg",
   "Text/Plain TXT", "  image/jpeg\tjpg jpeg\r", "text/plain", "text/plain constructor"}

\* The number of lines of such a document
MaxLines == 2

RECURSIVE joinLines(_)
joinLines(lines) ==
  IF lines = <<>> THEN ""
  ELSE IF Len(lines) = 1 THEN lines[1]
  ELSE lines[1] \o "\n" \o joinLines(Tail(lines))

ParseDocuments ==
  { joinLines(lines) : lines \in UNION { [1..n -> ParseLines] : n \in 0..MaxLines } }

\* The statements of the documents handed to #loadNGINX on its own: two
\* associations, upper case, a media type and an extension that fail the
\* validators
Statements ==
  {"text/plain txt", "image/jpeg jpg jpeg", "Text/Plain TXT", "plain txt", "image/jpeg j*g"}

\* The number of statements of such a document
MaxStatements == 2

\* types { s1; s2; ... } with one statement a line ("lines") or all of them on
\* one line ("inline")
RECURSIVE joinStatements(_, _)
joinStatements(statements, layout) ==
  IF statements = <<>> THEN ""
  ELSE (IF layout = "lines" THEN "  " ELSE " ") \o statements[1] \o ";"
       \o (IF layout = "lines" THEN "\n" ELSE "") \o joinStatements(Tail(statements), layout)

NginxDocument(statements, layout) ==
  "types {" \o (IF layout = "lines" THEN "\n" ELSE "") \o joinStatements(statements, layout)
  \o (IF layout = "lines" THEN "}" ELSE " }")

StatementSeqs == UNION { [1..n -> Statements] : n \in 0..MaxStatements }

Layouts == {"lines", "inline"}

\* The number of update() calls that can be in flight together
MaxInFlight == 1

Cycles == 1..MaxInFlight

\* The calls of an instance whose caller calls update() once more while a
\* call is in flight
OverlapCycles == 1..(MaxInFlight + 1)

(***************************************************************************)
(* State                                                                   *)
(***************************************************************************)

VARIABLES
  mediaTypes,   \* #mediaTypes: the registry object, extension -> value
  versions,     \* #versions: source -> version token
  db,           \* DB.json: [exists, form, mediaTypes, versions]
  last,         \* the last call of get, set or delete: its arguments and outcome
  cycles,       \* the update() calls: their requests, their position, their promise
  delivered,    \* what the network delivered in the step that led here
  emitted,      \* the events #eventEmitter.emit sent in the step that led here
  unhandled,    \* the rejections nobody handled in the step that led here
  writable,     \* whether fs.writeFileSync succeeds when it is called
  updateInterval, \* #updateInterval
  updateLoop,   \* #updateLoop: the handle setInterval returned, 0 for undefined
  timers,       \* the live recurring timers of the process: [id, delay]
  listeners,    \* the event names #eventEmitter has a listener for
  missing,      \* the private fields among mediaTypes, versions that are undefined
  loadOut,      \* what the loader applied in the step that led here returned
  plan          \* what the sources hold in store for the update() call in flight

vars ==
  <<mediaTypes, versions, db, last, cycles, delivered, emitted, unhandled, writable,
    updateInterval, updateLoop, timers, listeners, missing, loadOut, plan>>

\* What get, set, delete and the callbacks of update leave alone
rest == <<writable, updateInterval, updateLoop, timers, listeners, missing, loadOut, plan>>

BlankVersions == [s \in Sources |-> ""]

NoCall ==
  [seq |-> 0, op |-> "none", a1 |-> OtherArg("undefined"), a2 |-> OtherArg("undefined"),
   out |-> Returns(JSUndefined), wrote |-> FALSE]

Call(op, a1, a2, out, wrote) ==
  [seq |-> 1 - last.seq, op |-> op, a1 |-> a1, a2 |-> a2, out |-> out, wrote |-> wrote]

\* One of the three promises handed to Promise.allSettled:
\*   "head"      the HEAD request is pending
\*   "get"       the .then callback returned the promise of the GET request
\*   "fulfilled" settled; value tells whether it is a response or undefined
\*   "rejected"  settled by a rejection
\* The response of a fulfilled GET request is not looked at before it is
\* loaded, so the model draws it when the callback loads it.
Task(st, value) == [st |-> st, value |-> value]

\* list.<source>: absent, or { content: the object #updateList returned }.
\* shared: the extensions whose array in content is the very array the
\* registry holds (list[extension] = this.#mediaTypes[extension] = ...)
NotListed == [listed |-> FALSE, content |-> EmptyObject, shared |-> {}]

Listed(content, shared) == [listed |-> TRUE, content |-> content, shared |-> shared]

\* The promise update() returned
Pending ==
  [state |-> "pending", isNull |-> FALSE, value |-> EmptyObject, reason |-> Returns(JSUndefined)]

Fulfilled(isNull, value) ==
  [state |-> "fulfilled", isNull |-> isNull, value |-> value, reason |-> Returns(JSUndefined)]

\* reason is the error the callback threw
Rejected(reason) ==
  [state |-> "rejected", isNull |-> FALSE, value |-> EmptyObject, reason |-> reason]

\* phase: "idle", "network" (requests pending), "loading" (the callback awaits
\* the load of source number `awaiting`), "settled"
\* origin: "caller" (update was called from outside) or "timer" (by the
\* callback of setInterval)
IdleCycle ==
  [phase |-> "idle", force |-> FALSE, origin |-> "caller",
   task |-> [s \in Sources |-> Task("fulfilled", FALSE)],
   awaiting |-> 0,
   list |-> [s \in Sources |-> NotListed],
   promise |-> Pending]

\* What a step handles: the answer to a HEAD request ("probe"), the failure of
\* a request ("fail"), the answer to a GET request ("get"), the body of that
\* answer as far as it could be read ("load"), or nothing of the network
Delivery(kind, c, source, res) == [kind |-> kind, c |-> c, source |-> source, res |-> res]

NoResponse == Response(0, "", "", FALSE)

NoDelivery == Delivery("none", 0, "", NoResponse)

\* this.#eventEmitter.emit(name, payload)
Event(name, payload) == [name |-> name, payload |-> payload]

\* setInterval(callback, delay) of Node: a delay below 1 or above
\* 2147483647 (2^31 - 1) is replaced by 1
TimeoutMax == Milliseconds(2147483, 647)

TimerDelay(delay) ==
  IF NumberLess(delay, Milliseconds(0, 1)) \/ NumberLess(TimeoutMax, delay)
  THEN Milliseconds(0, 1)
  ELSE delay

Timer(id, delay) == [id |-> id, delay |-> TimerDelay(delay)]

\* The handle of the next timer: a new object, which is neither a live timer
\* nor the handle the instance holds
NewHandle(live, handle) ==
  CHOOSE id \in 1..(Cardinality(live) + 2) : id # handle /\ \A timer \in live : timer.id # id

\* clearInterval(handle)
clearInterval(live, handle) == {timer \in live : timer.id # handle}

\* 86400000
DefaultUpdateInterval == Milliseconds(86400, 0)

NoFile == [exists |-> FALSE, form |-> "snapshot", mediaTypes |-> EmptyObject, versions |-> BlankVersions]

\* No loader has been applied
\* What a source holds in store for a call: its HEAD request fails
\* ("probeFails"), its GET request fails if sent ("getFails"), or both are
\* answered ("answers"), by the responses probe and body
Outcome(kind, probe, body) == [kind |-> kind, probe |-> probe, body |-> body]

\* No call is planned
NoPlan ==
  [active |-> FALSE, c |-> 0, force |-> FALSE, mediaTypes |-> EmptyObject,
   versions |-> BlankVersions, db |-> NoFile,
   outcome |-> [s \in Sources |-> Outcome("probeFails", NoResponse, NoResponse)],
   second |-> [active |-> FALSE, c |-> 0, force |-> FALSE,
               outcome |-> [s \in Sources |-> Outcome("probeFails", NoResponse, NoResponse)]]]

\* What a source can hold in store for one call: a failure of either request,
\* or one of two documents under its token
PlanOutcomes ==
  [source \in Sources |->
    { Outcome("probeFails", NoResponse, NoResponse),
      Outcome("getFails", Response(StatusOK, "v1", "", TRUE), NoResponse),
      Outcome("answers", Response(StatusOK, "v1", "", TRUE),
              Response(StatusOK, "v1", IF source = "nginx" THEN "types {\n  image/jpeg jpg;\n}"
                                       ELSE "text/plain txt\nimage/jpeg jpg jpg", TRUE)),
      Outcome("answers", Response(StatusOK, "v2", "", TRUE),
              Response(StatusOK, "v2", IF source = "nginx"
                                       THEN "types { text/plain txt; image/jpeg jpg; }"
                                       ELSE "text/plain jpg\nimage/jpeg jpg", TRUE)) }]

\* What a source can hold in store for a call that overlaps another: a failure
\* of its HEAD request, or its document
OverlapOutcomes ==
  [source \in Sources |->
    { Outcome("probeFails", NoResponse, NoResponse),
      Outcome("answers", Response(StatusOK, "v1", "", TRUE),
              Response(StatusOK, "v1",
                       IF source = "apache" THEN "text/plain txt\nimage/jpeg jpg jpg"
                       ELSE IF source = "debian" THEN "text/plain jpg\nimage/jpeg jpg"
                       ELSE "types {\n  image/jpeg jpg;\n}", TRUE)) }]

PlanProbes == UNION { { o.probe : o \in PlanOutcomes[s] } : s \in Sources }

PlanBodies ==
  [source \in Sources |-> { o.body : o \in PlanOutcomes[source] \cup OverlapOutcomes[source] }]

NoParse == [threw |-> FALSE, version |-> "", content |-> <<>>]

\* new MediaTypes() where there is no DB.json
Init ==
  /\ mediaTypes = EmptyObject
  /\ versions = BlankVersions
  /\ db = NoFile
  /\ last = NoCall
  /\ cycles = [c \in Cycles |-> IdleCycle]
  /\ delivered = NoDelivery
  /\ emitted = <<>>
  /\ unhandled = <<>>
  /\ writable = TRUE
  /\ updateInterval = DefaultUpdateInterval
  /\ updateLoop = 1
  /\ timers = {Timer(1, DefaultUpdateInterval)}
  /\ listeners = {}
  /\ missing = {}
  /\ loadOut = NoParse
  /\ plan = NoPlan

(***************************************************************************)
(* update: the callback of Promise.allSettled(...).then                    *)
(***************************************************************************)

\* The delta: list = Object.keys(list).reduce(...), every array deduplicated
\* through a Set
RECURSIVE uniqueValues(_)
uniqueValues(a) ==
  IF a = <<>> THEN <<>>
  ELSE LET front == uniqueValues(SubSeq(a, 1, Len(a) - 1))
       IN IF includes(front, a[Len(a)]) THEN front ELSE Append(front, a[Len(a)])

\* A reduction in which the lists of a source replace those of the sources
\* before it
RECURSIVE reduceList_overwriting(_, _, _)
reduceList_overwriting(acc, list, i) ==
  IF i > Len(SourceOrder) THEN acc
  ELSE LET content == list[SourceOrder[i]].content
           merged == [key \in DOMAIN acc \cup DOMAIN content |->
                        IF key \in DOMAIN content
                        THEN JSArray(uniqueValues(content[key].a))
                        ELSE acc[key]]
       IN reduceList_overwriting(IF list[SourceOrder[i]].listed THEN merged ELSE acc, list, i + 1)

RECURSIVE reduceList(_, _, _)
reduceList(acc, list, i) ==
  IF i > Len(SourceOrder) THEN acc
  ELSE LET content == list[SourceOrder[i]].content
           merged == [key \in DOMAIN acc \cup DOMAIN content |->
                        IF key \in DOMAIN content
                        THEN JSArray(uniqueValues(GetProperty(acc, key).a \o content[key].a))
                        ELSE acc[key]]
       IN reduceList(IF list[SourceOrder[i]].listed THEN merged ELSE acc, list, i + 1)

\* The promise settles: the requests and the list of the call are dropped
Settle(cycle, promise) ==
  [IdleCycle EXCEPT !.phase = "settled", !.promise = promise, !.origin = cycle.origin]

\* A callback that emits 'update' before it writes DB.json
RECURSIVE thenFrom_emittingFirst(_, _, _)
thenFrom_emittingFirst(st, k, writeOk) ==
  IF k <= Len(SourceOrder)
  THEN LET task == st.cycle.task[SourceOrder[k]]
       IN IF task.st = "fulfilled" /\ task.value
          THEN [st EXCEPT !.cycle.phase = "loading", !.cycle.awaiting = k]
          ELSE thenFrom_emittingFirst(st, k + 1, writeOk)
  ELSE IF \A s \in Sources : ~st.cycle.list[s].listed
  THEN [st EXCEPT !.cycle = Settle(@, Fulfilled(TRUE, EmptyObject))]
  ELSE LET delta == reduceList(EmptyObject, st.cycle.list, 1)
       IN IF ~writeOk
          THEN [st EXCEPT !.emitted = <<Event("update", delta)>>,
                          !.cycle = Settle(@, Rejected(WriteError))]
          ELSE [st EXCEPT !.db = Snapshot(st.mediaTypes, st.versions),
                          !.emitted = <<Event("update", delta)>>,
                          !.cycle = Settle(@, Fulfilled(FALSE, delta))]

\* The callback from the examination of results[k - 1] on, until its next
\* await or its end. st = [mediaTypes, versions, db, cycle, emitted, ...].
RECURSIVE thenFrom(_, _, _)
thenFrom(st, k, writeOk) ==
  IF k <= Len(SourceOrder)
  THEN LET task == st.cycle.task[SourceOrder[k]]
       IN IF task.st = "fulfilled" /\ task.value
          THEN [st EXCEPT !.cycle.phase = "loading", !.cycle.awaiting = k]
          ELSE thenFrom(st, k + 1, writeOk)
  ELSE IF \A s \in Sources : ~st.cycle.list[s].listed
  THEN [st EXCEPT !.cycle = Settle(@, Fulfilled(TRUE, EmptyObject))]
  ELSE IF ~writeOk
  THEN [st EXCEPT !.cycle = Settle(@, Rejected(WriteError))]
  ELSE LET delta == reduceList(EmptyObject, st.cycle.list, 1)
       IN [st EXCEPT !.db = Snapshot(st.mediaTypes, st.versions),
                     !.emitted = <<Event("update", delta)>>,
                     !.cycle = Settle(@, Fulfilled(FALSE, delta))]

load(source, res) ==
  IF source = "apache" THEN loadApache(res)
  ELSE IF source = "debian" THEN loadDebian(res)
  ELSE loadNGINX(res)

\* A callback that accepts a fragment whether or not it carries a token
afterLoad_withoutTokenCheck(st, res, writeOk) ==
  LET k == st.cycle.awaiting
      source == SourceOrder[k]
      loaded == load(source, res)
      merged == updateList(st.mediaTypes, loaded.content)
      newVersions == [st.versions EXCEPT ![source] = loaded.version]
  IN IF loaded.threw
     THEN [st EXCEPT !.cycle = Settle(@, Rejected(RuntimeTypeError))]
     ELSE IF Len(loaded.content) > 0
     THEN IF "versions" \in st.missing
          THEN [st EXCEPT !.cycle = Settle(@, Rejected(RuntimeTypeError))]
          ELSE IF merged.threw \/ "mediaTypes" \in st.missing
          THEN [st EXCEPT !.mediaTypes = IF "mediaTypes" \in st.missing THEN @
                                           ELSE merged.mediaTypes,
                          !.versions = newVersions,
                          !.cycle = Settle(@, Rejected(RuntimeTypeError))]
          ELSE thenFrom([st EXCEPT !.mediaTypes = merged.mediaTypes, !.versions = newVersions,
                                   !.cycle.list[source] =
                                     Listed(merged.list,
                                            { key \in DOMAIN merged.list :
                                                ~HasProperty(st.mediaTypes, key) })],
                        k + 1, writeOk)
     ELSE thenFrom(st, k + 1, writeOk)

\* The callback resumes after `await this.#load...(results[k - 1].value)`,
\* res being the response the GET request was answered with
afterLoad(st, res, writeOk) ==
  LET k == st.cycle.awaiting
      source == SourceOrder[k]
      loaded == load(source, res)
      merged == updateList(st.mediaTypes, loaded.content)
      newVersions == [st.versions EXCEPT ![source] = loaded.version]
  IN IF loaded.threw
     THEN [st EXCEPT !.cycle = Settle(@, Rejected(RuntimeTypeError))]
     ELSE IF loaded.version # "" /\ Len(loaded.content) > 0
     THEN IF "versions" \in st.missing
          THEN [st EXCEPT !.cycle = Settle(@, Rejected(RuntimeTypeError))]
          ELSE IF merged.threw \/ "mediaTypes" \in st.missing
          THEN [st EXCEPT !.mediaTypes = IF "mediaTypes" \in st.missing THEN @
                                           ELSE merged.mediaTypes,
                          !.versions = newVersions,
                          !.cycle = Settle(@, Rejected(RuntimeTypeError))]
          ELSE thenFrom([st EXCEPT !.mediaTypes = merged.mediaTypes, !.versions = newVersions,
                                   !.cycle.list[source] =
                                     Listed(merged.list,
                                            { key \in DOMAIN merged.list :
                                                ~HasProperty(st.mediaTypes, key) })],
                        k + 1, writeOk)
     ELSE thenFrom(st, k + 1, writeOk)

\* A callback that starts as soon as one of the three promises has settled
whenAllSettled_onFirst(st, writeOk) ==
  IF \E s \in Sources : st.cycle.task[s].st \in {"fulfilled", "rejected"}
  THEN thenFrom(st, 1, writeOk)
  ELSE st

\* A callback that starts once two of the three promises have settled
whenAllSettled_racing(st, writeOk) ==
  IF \E s \in Sources :
       \A x \in Sources \ {s} : st.cycle.task[x].st \in {"fulfilled", "rejected"}
  THEN thenFrom(st, 1, writeOk)
  ELSE st

\* The callback starts once the three promises have settled
whenAllSettled(st, writeOk) ==
  IF \A s \in Sources : st.cycle.task[s].st \in {"fulfilled", "rejected"}
  THEN thenFrom(st, 1, writeOk)
  ELSE st

\* A HEAD callback that fetches whenever the probe succeeds
shouldFetch_ignoringStored(res, force, stored) == res.status = StatusOK

\* A HEAD callback that fetches only when the token has changed
shouldFetch_ignoringForce(res, force, stored) ==
  res.status = StatusOK /\ res.etag # "" /\ res.etag # stored

\* Whether the condition of the HEAD callback gets as far as reading
\* this.#versions.<source>
readsStored(res, force) == res.status = StatusOK /\ ~force /\ res.etag # ""

\* The .then callback of a HEAD request: whether the GET request is issued
shouldFetch(res, force, stored) ==
  res.status = StatusOK /\ (force \/ (res.etag # "" /\ res.etag # stored))

(***************************************************************************)
(* constructor                                                             *)
(***************************************************************************)

\* try { const { mediaTypes, versions } = JSON.parse(fs.readFileSync(...))
\* ... } catch (err) { ... }: the fields after it. A field the parsed object
\* lacks is undefined; `missing` names those fields, whose model value is a
\* placeholder
readSnapshot(file) ==
  IF ~file.exists \/ file.form \in {"empty", "unparseable"}
  THEN [mediaTypes |-> EmptyObject, versions |-> BlankVersions, missing |-> {}]
  ELSE [mediaTypes |-> IF file.form \in {"noMediaTypes", "neither"} THEN EmptyObject
                       ELSE file.mediaTypes,
        versions |-> IF file.form \in {"noVersions", "neither"} THEN BlankVersions
                     ELSE file.versions,
        missing |-> (IF file.form \in {"noMediaTypes", "neither"} THEN {"mediaTypes"} ELSE {})
                    \cup (IF file.form \in {"noVersions", "neither"} THEN {"versions"} ELSE {})]

(***************************************************************************)
(* updateInterval                                                          *)
(***************************************************************************)

\* A setter that leaves the timer running when the interval is negative
setUpdateInterval_keepingTimer(interval, handle, live, arg) ==
  LET value == IF arg.v = "undefined" THEN DefaultUpdateInterval ELSE arg.n
      cleared == clearInterval(live, handle)
  IN IF arg.v \notin {"number", "undefined"}
     THEN [out |-> Throws("TypeError", "Invalid updateInterval"),
           updateInterval |-> interval, updateLoop |-> handle, timers |-> live]
     ELSE IF ~NumberLess(value, Zero)
     THEN [out |-> Returns(JSUndefined), updateInterval |-> value,
           updateLoop |-> NewHandle(cleared, handle),
           timers |-> cleared \cup {Timer(NewHandle(cleared, handle), value)}]
     ELSE [out |-> Returns(JSUndefined), updateInterval |-> value,
           updateLoop |-> handle, timers |-> live]

\* A setter that stores the value and cancels the timer before it checks
\* the value
setUpdateInterval_assigningFirst(interval, handle, live, arg) ==
  LET value == IF arg.v = "undefined" THEN DefaultUpdateInterval ELSE arg.n
      cleared == clearInterval(live, handle)
  IN IF arg.v \notin {"number", "undefined"}
     THEN [out |-> Throws("TypeError", "Invalid updateInterval"),
           updateInterval |-> value, updateLoop |-> handle, timers |-> cleared]
     ELSE IF ~NumberLess(value, Zero)
     THEN [out |-> Returns(JSUndefined), updateInterval |-> value,
           updateLoop |-> NewHandle(cleared, handle),
           timers |-> cleared \cup {Timer(NewHandle(cleared, handle), value)}]
     ELSE [out |-> Returns(JSUndefined), updateInterval |-> value,
           updateLoop |-> handle, timers |-> cleared]

\* set updateInterval (updateInterval = 86400000): the outcome, the fields
\* and the live timers after the assignment
setUpdateInterval(interval, handle, live, arg) ==
  LET value == IF arg.v = "undefined" THEN DefaultUpdateInterval ELSE arg.n
      cleared == clearInterval(live, handle)
  IN IF arg.v \notin {"number", "undefined"}
     THEN [out |-> Throws("TypeError", "Invalid updateInterval"),
           updateInterval |-> interval, updateLoop |-> handle, timers |-> live]
     ELSE IF ~NumberLess(value, Zero)
     THEN [out |-> Returns(JSUndefined), updateInterval |-> value,
           updateLoop |-> NewHandle(cleared, handle),
           timers |-> cleared \cup {Timer(NewHandle(cleared, handle), value)}]
     ELSE [out |-> Returns(JSUndefined), updateInterval |-> value,
           updateLoop |-> handle, timers |-> cleared]

(***************************************************************************)
(* Actions                                                                 *)
(***************************************************************************)

\* Where #mediaTypes is undefined: the argument checks pass or throw as usual,
\* then the first use of the registry throws
undefinedRegistry(check, registry, file) ==
  [out |-> IF check.threw THEN check ELSE RuntimeTypeError,
   mediaTypes |-> registry, db |-> file, wrote |-> FALSE]

\* JSON.stringify leaves out a field whose value is undefined
stringified(file, undefinedFields) ==
  IF "versions" \in undefinedFields THEN [file EXCEPT !.form = "noVersions"] ELSE file

\* The callback of setInterval: try { await this.update() } catch (err) {
\* this.#eventEmitter.emit('error', err) }. emit('error', err) throws err when
\* there is no listener for 'error', which rejects the promise of the callback
tickCatch(st) ==
  IF st.cycle.phase = "settled" /\ st.cycle.origin = "timer"
     /\ st.cycle.promise.state = "rejected"
  THEN IF "error" \in st.listeners
       THEN [st EXCEPT !.emitted = Append(@, Event("error", st.cycle.promise.reason))]
       ELSE [st EXCEPT !.unhandled = Append(@, st.cycle.promise.reason)]
  ELSE st

\* The extensions whose array #updateList has replaced by a new one
\* (concat(mediaType).sort())
reassigned(before, after) ==
  { key \in DOMAIN before \cap DOMAIN after : before[key] # after[key] }

\* The lists of the calls in flight no longer share the arrays of these
\* extensions with the registry
unshare(inFlight, keys) ==
  [c \in DOMAIN inFlight |->
     [inFlight[c] EXCEPT !.list = [s \in Sources |-> [@[s] EXCEPT !.shared = @ \ keys]]]]

\* this.#mediaTypes[extension].splice(i, 1) changes the array in place: a list
\* of a call in flight that shares the array loses the media type as well
spliceShared(inFlight, extension, after) ==
  [c \in DOMAIN inFlight |->
     [inFlight[c] EXCEPT !.list =
        [s \in Sources |->
           IF extension \in @[s].shared
           THEN [@[s] EXCEPT
                   !.content = PutProperty(@, extension,
                                           IF extension \in DOMAIN after THEN after[extension]
                                           ELSE JSArray(<<>>)),
                   !.shared = IF extension \in DOMAIN after THEN @ ELSE @ \ {extension}]
           ELSE @[s]]]]

Get(paths) ==
  \E path \in paths :
    /\ last' = Call("get", path, OtherArg("undefined"),
                     IF "mediaTypes" \in missing /\ ~get(mediaTypes, path).threw
                     THEN RuntimeTypeError
                     ELSE get(mediaTypes, path), FALSE)
    /\ delivered' = NoDelivery
    /\ emitted' = <<>>
    /\ unhandled' = <<>>
    /\ UNCHANGED <<mediaTypes, versions, db, cycles, rest>>

Set(extensions, types) ==
  \E extension \in extensions, mediaType \in types :
    LET r == IF "mediaTypes" \in missing
             THEN undefinedRegistry(checkArguments(extension, mediaType), mediaTypes, db)
             ELSE set(mediaTypes, versions, db, extension, mediaType, writable)
    IN /\ mediaTypes' = r.mediaTypes
       /\ db' = IF r.wrote THEN stringified(r.db, missing) ELSE r.db
       /\ last' = Call("set", extension, mediaType, r.out, r.wrote)
       /\ cycles' = unshare(cycles, reassigned(mediaTypes, r.mediaTypes))
       /\ delivered' = NoDelivery
       /\ emitted' = <<>>
       /\ unhandled' = <<>>
       /\ UNCHANGED <<versions, rest>>

Delete(extensions, types) ==
  \E extension \in extensions, mediaType \in types :
    LET r == IF "mediaTypes" \in missing
             THEN undefinedRegistry(checkArguments(extension, mediaType), mediaTypes, db)
             ELSE delete(mediaTypes, versions, db, extension, mediaType, writable)
    IN /\ mediaTypes' = r.mediaTypes
       /\ db' = IF r.wrote THEN stringified(r.db, missing) ELSE r.db
       /\ last' = Call("delete", extension, mediaType, r.out, r.wrote)
       /\ cycles' = IF r.mediaTypes # mediaTypes
                    THEN spliceShared(cycles, toLowerCase(trim(extension.v)), r.mediaTypes)
                    ELSE cycles
       /\ delivered' = NoDelivery
       /\ emitted' = <<>>
       /\ unhandled' = <<>>
       /\ UNCHANGED <<versions, rest>>

Apply(c, st) ==
  /\ mediaTypes' = st.mediaTypes
  /\ versions' = st.versions
  /\ db' = st.db
  /\ cycles' = unshare([cycles EXCEPT ![c] = st.cycle], reassigned(mediaTypes, st.mediaTypes))
  /\ emitted' = tickCatch(st).emitted
  /\ unhandled' = tickCatch(st).unhandled
  /\ UNCHANGED <<last, rest>>

Current(c) ==
  [mediaTypes |-> mediaTypes, versions |-> versions, db |-> db, cycle |-> cycles[c],
   emitted |-> <<>>, unhandled |-> <<>>, listeners |-> listeners, missing |-> missing]

\* update(force): the three HEAD requests are sent
Update ==
  \E c \in DOMAIN cycles, force \in BOOLEAN :
    /\ cycles[c].phase \in {"idle", "settled"}
    /\ cycles' = [cycles EXCEPT ![c] =
                    [IdleCycle EXCEPT !.phase = "network", !.force = force,
                                      !.task = [s \in Sources |-> Task("head", FALSE)]]]
    /\ delivered' = NoDelivery
    /\ emitted' = <<>>
    /\ unhandled' = <<>>
    /\ UNCHANGED <<mediaTypes, versions, db, last, rest>>

\* A HEAD request is answered and its .then callback runs
ProbeAnswered(responses) ==
  \E c \in DOMAIN cycles, s \in Sources, res \in responses :
    /\ cycles[c].phase = "network"
    /\ cycles[c].task[s].st = "head"
    /\ delivered' = Delivery("probe", c, s, res)
    /\ LET task == IF "versions" \in missing /\ readsStored(res, cycles[c].force)
                   THEN Task("rejected", FALSE)
                   ELSE IF shouldFetch(res, cycles[c].force, versions[s])
                   THEN Task("get", FALSE)
                   ELSE Task("fulfilled", FALSE)
       IN Apply(c, whenAllSettled([Current(c) EXCEPT !.cycle.task[s] = task], writable))

\* A HEAD or GET request fails (network error, rejection)
RequestFailed ==
  \E c \in DOMAIN cycles, s \in Sources :
    /\ cycles[c].phase = "network"
    /\ cycles[c].task[s].st \in {"head", "get"}
    /\ delivered' = Delivery("fail", c, s, NoResponse)
    /\ Apply(c, whenAllSettled([Current(c) EXCEPT !.cycle.task[s] = Task("rejected", FALSE)],
                               writable))

\* A GET request is answered
GetAnswered ==
  \E c \in DOMAIN cycles, s \in Sources :
    /\ cycles[c].phase = "network"
    /\ cycles[c].task[s].st = "get"
    /\ delivered' = Delivery("get", c, s, NoResponse)
    /\ Apply(c, whenAllSettled([Current(c) EXCEPT !.cycle.task[s] = Task("fulfilled", TRUE)],
                               writable))

\* The body of the awaited response has been read, or could not be
Loaded(responses) ==
  \E c \in DOMAIN cycles :
    /\ cycles[c].phase = "loading"
    /\ \E res \in responses[SourceOrder[cycles[c].awaiting]] :
         /\ delivered' = Delivery("load", c, SourceOrder[cycles[c].awaiting], res)
         /\ Apply(c, afterLoad(Current(c), res, writable))

\* update() called by the callback of a live timer
Tick ==
  \E c \in DOMAIN cycles, timer \in timers :
    /\ cycles[c].phase \in {"idle", "settled"}
    /\ cycles' = [cycles EXCEPT ![c] =
                    [IdleCycle EXCEPT !.phase = "network", !.origin = "timer",
                                      !.task = [s \in Sources |-> Task("head", FALSE)]]]
    /\ delivered' = NoDelivery
    /\ emitted' = <<>>
    /\ unhandled' = <<>>
    /\ UNCHANGED <<mediaTypes, versions, db, last, rest>>

\* instance.updateInterval = arg
SetUpdateInterval(args) ==
  \E arg \in args :
    LET r == setUpdateInterval(updateInterval, updateLoop, timers, arg)
    IN /\ updateInterval' = r.updateInterval
       /\ updateLoop' = r.updateLoop
       /\ timers' = r.timers
       /\ last' = Call("updateInterval", arg, OtherArg("undefined"), r.out, FALSE)
       /\ delivered' = NoDelivery
       /\ emitted' = <<>>
       /\ unhandled' = <<>>
       /\ UNCHANGED <<mediaTypes, versions, db, cycles, writable, listeners, missing, loadOut, plan>>

\* on(name, listener), off(name, listener) with one listener a name
On(names) ==
  \E name \in names \ listeners :
    /\ listeners' = listeners \cup {name}
    /\ delivered' = NoDelivery
    /\ emitted' = <<>>
    /\ unhandled' = <<>>
    /\ UNCHANGED <<mediaTypes, versions, db, last, cycles, writable, updateInterval,
                   updateLoop, timers, missing, loadOut, plan>>

Off(names) ==
  \E name \in names \cap listeners :
    /\ listeners' = listeners \ {name}
    /\ delivered' = NoDelivery
    /\ emitted' = <<>>
    /\ unhandled' = <<>>
    /\ UNCHANGED <<mediaTypes, versions, db, last, cycles, writable, updateInterval,
                   updateLoop, timers, missing, loadOut, plan>>

\* DB.json is removed, truncated, overwritten with something that is no JSON,
\* or with a JSON object that lacks mediaTypes, versions or both
FileDamaged(forms) ==
  \E form \in forms :
    /\ db' = IF form = "absent" THEN NoFile
             ELSE [exists |-> TRUE, form |-> form,
                   mediaTypes |-> IF form = "noVersions" THEN db.mediaTypes ELSE EmptyObject,
                   versions |-> IF form = "noMediaTypes" THEN db.versions ELSE BlankVersions]
    /\ db' # db
    /\ delivered' = NoDelivery
    /\ emitted' = <<>>
    /\ unhandled' = <<>>
    /\ UNCHANGED <<mediaTypes, versions, last, cycles, rest>>

\* The process starts again and calls new MediaTypes(arg). A constructor that
\* throws leaves no instance: the model keeps the state and records the throw
Construct(args) ==
  \E arg \in args :
    LET read == readSnapshot(db)
        r == setUpdateInterval(Zero, 0, {}, arg)
    IN /\ last' = Call("constructor", arg, OtherArg("undefined"), r.out, FALSE)
       /\ delivered' = NoDelivery
       /\ emitted' = <<>>
       /\ unhandled' = <<>>
       /\ IF r.out.threw
          THEN UNCHANGED <<mediaTypes, versions, db, cycles, rest>>
          ELSE /\ mediaTypes' = read.mediaTypes
               /\ versions' = read.versions
               /\ missing' = read.missing
               /\ cycles' = [c \in Cycles |-> IdleCycle]
               /\ updateInterval' = r.updateInterval
               /\ updateLoop' = r.updateLoop
               /\ timers' = r.timers
               /\ listeners' = {}
               /\ UNCHANGED <<db, writable, loadOut, plan>>

\* The file system starts or stops refusing fs.writeFileSync
WritableChanges ==
  /\ writable' = ~writable
  /\ delivered' = NoDelivery
  /\ emitted' = <<>>
  /\ unhandled' = <<>>
  /\ UNCHANGED <<mediaTypes, versions, db, last, cycles, updateInterval, updateLoop, timers,
                 listeners, missing, loadOut, plan>>

\* The instance with its callers and the network: the callers of get, set and
\* delete pass a few well-formed arguments, the sources answer with one
\* document each or fail
Next ==
  \/ Get(SomePaths)
  \/ Set(SomeExtensions, SomeMediaTypes)
  \/ Delete(SomeExtensions, SomeMediaTypes)
  \/ Update
  \/ ProbeAnswered(SomeProbeResponses)
  \/ RequestFailed
  \/ GetAnswered
  \/ Loaded(SomeGetResponses)

Spec == Init /\ [][Next]_vars

\* The instance with automatic and manual updates off: callers of get, set and
\* delete pass every kind of argument
NextCalls ==
  \/ Get(PathArgs)
  \/ Set(ExtensionArgs, MediaTypeArgs)
  \/ Delete(ExtensionArgs, MediaTypeArgs)

SpecCalls == Init /\ [][NextCalls]_vars

\* The instance with update() called and nothing else: the sources answer in
\* every way
NextSync ==
  \/ Update
  \/ ProbeAnswered(ProbeResponses)
  \/ RequestFailed
  \/ GetAnswered
  \/ Loaded(GetResponses)

SpecSync == Init /\ [][NextSync]_vars

\* The instance with update() called while the file system at times refuses
\* to write DB.json
NextSyncWrites ==
  \/ Update
  \/ ProbeAnswered(SomeProbeResponses)
  \/ RequestFailed
  \/ GetAnswered
  \/ Loaded(SomeGetResponses)
  \/ WritableChanges

SpecSyncWrites == Init /\ [][NextSyncWrites]_vars

\* The instance with set and delete called while the file system at times
\* refuses to write DB.json
NextWrites ==
  \/ Set(SomeExtensions, SomeMediaTypes)
  \/ Delete(SomeExtensions, SomeMediaTypes)
  \/ WritableChanges

SpecWrites == Init /\ [][NextWrites]_vars

\* The instance with its timer: updateInterval is assigned, the process starts
\* again, the timer fires, the sources answer with one document each, 'error'
\* is listened to or not, and the file system at times refuses to write
NextTimer ==
  \/ SetUpdateInterval(IntervalArgs)
  \/ Construct(IntervalArgs)
  \/ Tick
  \/ ProbeAnswered(SomeProbeResponses)
  \/ GetAnswered
  \/ Loaded(SomeGetResponses)
  \/ On({"error"})
  \/ Off({"error"})
  \/ WritableChanges

SpecTimer == Init /\ [][NextTimer]_vars

\* The instance constructed again and again from the DB.json that set and
\* delete have written or that something else has put there
NextRestart ==
  \/ Get(SomePaths)
  \/ Set(RestartExtensions, SomeMediaTypes)
  \/ Delete(RestartExtensions, SomeMediaTypes)
  \/ Construct(SomeIntervalArgs)
  \/ FileDamaged(Forms)

SpecRestart == Init /\ [][NextRestart]_vars

\* update(force) called while no other call is in flight, with what each source
\* holds in store for it
UpdatePlanned(outcomes) ==
  \E c \in DOMAIN cycles, force \in BOOLEAN,
     outcome \in [Sources -> UNION {outcomes[s] : s \in Sources}] :
    /\ \A s \in Sources : outcome[s] \in outcomes[s]
    /\ \A other \in DOMAIN cycles : cycles[other].phase \in {"idle", "settled"} /\ c <= other
    /\ cycles' = [cycles EXCEPT ![c] =
                    [IdleCycle EXCEPT !.phase = "network", !.force = force,
                                      !.task = [s \in Sources |-> Task("head", FALSE)]]]
    /\ plan' = [NoPlan EXCEPT !.active = TRUE, !.c = c, !.force = force,
                              !.mediaTypes = mediaTypes, !.versions = versions, !.db = db,
                              !.outcome = outcome]
    /\ delivered' = NoDelivery
    /\ emitted' = <<>>
    /\ unhandled' = <<>>
    /\ UNCHANGED <<mediaTypes, versions, db, last, writable, updateInterval, updateLoop,
                   timers, listeners, missing, loadOut>>

\* update(force) called once more while the planned call is in flight
UpdateOverlapping(outcomes) ==
  \E c \in DOMAIN cycles, force \in BOOLEAN,
     outcome \in [Sources -> UNION {outcomes[s] : s \in Sources}] :
    /\ \A s \in Sources : outcome[s] \in outcomes[s]
    /\ plan.active
    /\ ~plan.second.active
    /\ c # plan.c
    /\ cycles[plan.c].phase \in {"network", "loading"}
    /\ cycles[c].phase \in {"idle", "settled"}
    /\ cycles' = [cycles EXCEPT ![c] =
                    [IdleCycle EXCEPT !.phase = "network", !.force = force,
                                      !.task = [s \in Sources |-> Task("head", FALSE)]]]
    /\ plan' = [plan EXCEPT !.second = [active |-> TRUE, c |-> c, force |-> force,
                                         outcome |-> outcome]]
    /\ delivered' = NoDelivery
    /\ emitted' = <<>>
    /\ unhandled' = <<>>
    /\ UNCHANGED <<mediaTypes, versions, db, last, writable, updateInterval, updateLoop,
                   timers, listeners, missing, loadOut>>

\* What the sources hold in store for call c
PlannedFor(c) == IF plan.second.active /\ plan.second.c = c THEN plan.second.outcome
                 ELSE plan.outcome

\* The requests of the planned calls end as planned, in any order
PlannedProbe ==
  /\ ProbeAnswered(PlanProbes)
  /\ PlannedFor(delivered'.c)[delivered'.source].kind # "probeFails"
  /\ delivered'.res = PlannedFor(delivered'.c)[delivered'.source].probe

PlannedFailure ==
  /\ RequestFailed
  /\ PlannedFor(delivered'.c)[delivered'.source].kind
       = (IF cycles[delivered'.c].task[delivered'.source].st = "head" THEN "probeFails"
          ELSE "getFails")

PlannedGet ==
  /\ GetAnswered
  /\ PlannedFor(delivered'.c)[delivered'.source].kind = "answers"

PlannedLoad ==
  /\ Loaded(PlanBodies)
  /\ delivered'.res = PlannedFor(delivered'.c)[delivered'.source].body

NextMerge ==
  \/ UpdatePlanned(PlanOutcomes)
  \/ PlannedProbe
  \/ PlannedFailure
  \/ PlannedGet
  \/ PlannedLoad

SpecMerge == Init /\ [][NextMerge]_vars

\* The instance whose caller calls update() a second time while a call is in
\* flight. It starts without DB.json, or with the DB.json an earlier instance
\* wrote after the nginx source alone had answered
InitOverlap ==
  /\ \E file \in {NoFile,
                   Snapshot(PutProperty(EmptyObject, "jpg", JSArray(<<"image/jpeg">>)),
                            [BlankVersions EXCEPT !["nginx"] = "v1"])} :
       /\ db = file
       /\ mediaTypes = readSnapshot(file).mediaTypes
       /\ versions = readSnapshot(file).versions
  /\ last = NoCall
  /\ cycles = [c \in OverlapCycles |-> IdleCycle]
  /\ delivered = NoDelivery
  /\ emitted = <<>>
  /\ unhandled = <<>>
  /\ writable = TRUE
  /\ updateInterval = DefaultUpdateInterval
  /\ updateLoop = 1
  /\ timers = {Timer(1, DefaultUpdateInterval)}
  /\ listeners = {}
  /\ missing = {}
  /\ loadOut = NoParse
  /\ plan = NoPlan

\* The first of the two calls
UpdateFirst(outcomes) == ~plan.active /\ UpdatePlanned(outcomes)

NextOverlap ==
  \/ UpdateFirst(OverlapOutcomes)
  \/ UpdateOverlapping(OverlapOutcomes)
  \/ PlannedProbe
  \/ PlannedFailure
  \/ PlannedGet
  \/ PlannedLoad

SpecOverlap == InitOverlap /\ [][NextOverlap]_vars

\* The instance whose caller deletes associations the sources provide and
\* calls update() with and without force
NextResync ==
  \/ Delete(ProvidedExtensions, ProvidedMediaTypes)
  \/ Update
  \/ ProbeAnswered(SomeProbeResponses)
  \/ RequestFailed
  \/ GetAnswered
  \/ Loaded(SomeGetResponses)

SpecResync == Init /\ [][NextResync]_vars

\* #loadApache and #loadDebian on their own: a response has arrived, and the
\* loader is applied to it
InitParse ==
  /\ mediaTypes = EmptyObject
  /\ versions = BlankVersions
  /\ db = NoFile
  /\ last = NoCall
  /\ cycles = [c \in Cycles |-> IdleCycle]
  /\ delivered \in { Delivery("get", 0, source, Response(StatusOK, "v1", body, TRUE)) :
                       source \in {"apache", "debian"}, body \in ParseDocuments }
  /\ emitted = <<>>
  /\ unhandled = <<>>
  /\ writable = TRUE
  /\ updateInterval = DefaultUpdateInterval
  /\ updateLoop = 1
  /\ timers = {Timer(1, DefaultUpdateInterval)}
  /\ listeners = {}
  /\ missing = {}
  /\ loadOut = NoParse
  /\ plan = NoPlan

LoadTable ==
  /\ delivered.kind = "get"
  /\ delivered.c = 0
  /\ loadOut' = load(delivered.source, delivered.res)
  /\ delivered' = [delivered EXCEPT !.kind = "load"]
  /\ emitted' = <<>>
  /\ unhandled' = <<>>
  /\ UNCHANGED <<mediaTypes, versions, db, last, cycles, writable, updateInterval, updateLoop,
                 timers, listeners, missing, plan>>

SpecParse == InitParse /\ [][LoadTable]_vars

\* #loadNGINX on its own
InitParseNginx ==
  /\ mediaTypes = EmptyObject
  /\ versions = BlankVersions
  /\ db = NoFile
  /\ last = NoCall
  /\ cycles = [c \in Cycles |-> IdleCycle]
  /\ delivered \in { Delivery("get", 0, "nginx",
                                Response(StatusOK, "v1", NginxDocument(statements, layout), TRUE)) :
                       statements \in StatementSeqs, layout \in Layouts }
  /\ emitted = <<>>
  /\ unhandled = <<>>
  /\ writable = TRUE
  /\ updateInterval = DefaultUpdateInterval
  /\ updateLoop = 1
  /\ timers = {Timer(1, DefaultUpdateInterval)}
  /\ listeners = {}
  /\ missing = {}
  /\ loadOut = NoParse
  /\ plan = NoPlan

SpecParseNginx == InitParseNginx /\ [][LoadTable]_vars

(***************************************************************************)
(* Vocabulary of the properties                                            *)
(***************************************************************************)

\* The step is a call of get, set or delete
IsCall(op) == last'.seq # last.seq /\ last'.op = op

\* The media types of the specification's grammar: type/subtype, optionally
\* followed by parameters
IsMediaType(s) ==
  LET semi == FirstIndexOf(s, ";")
      essence == IF semi = 0 THEN s ELSE SubSeq(s, 1, semi - 1)
      slash == FirstIndexOf(essence, "/")
  IN /\ slash > 1
     /\ typeMatches(SubSeq(essence, 1, slash - 1))
     /\ Len(essence) - slash \in 1..MaxSubtypeLen
     /\ CharsOf(SubSeq(essence, slash + 1, Len(essence))) \subseteq SubtypeChars

IsExtension(s) == s # "" /\ CharsOf(s) \subseteq ExtensionChars

ValidExtensionArg(arg) == arg.isString /\ IsExtension(arg.v)

ValidMediaTypeArg(arg) == arg.isString /\ IsMediaType(arg.v)

\* The essence of a media type: type/subtype in lower case, parameters dropped
Essence(s) ==
  LET semi == FirstIndexOf(s, ";")
  IN toLowerCase(trim(IF semi = 0 THEN s ELSE SubSeq(s, 1, semi - 1)))

\* The list the registry holds for an extension, <<>> if it holds none
ListOf(registry, extension) ==
  IF extension \in DOMAIN registry /\ registry[extension].t = "array"
  THEN registry[extension].a
  ELSE <<>>

ContainsEssence(list, mediaType) ==
  \E i \in 1..Len(list) : Essence(list[i]) = Essence(mediaType)

\* The registry associates the extension with the media type, by essence
HasAssociation(registry, extension, mediaType) ==
  ContainsEssence(ListOf(registry, toLowerCase(extension)), mediaType)

\* The extension get derives from a path
DerivedExtension(path) == toLowerCase(trim(replaceFirstDot(parseExt(path))))

\* The file name of the path is a non-empty stem, a dot and the extension
FileNameEndsWith(path, extension) ==
  /\ EndsWith(path, "." \o extension)
  /\ Len(path) > Len(extension) + 1
  /\ CharAt(path, Len(path) - Len(extension) - 1) # "/"

\* What a call must leave alone when it changes no state
CallChangesNothing ==
  UNCHANGED <<mediaTypes, versions, db, cycles>> /\ ~last'.wrote /\ emitted' = <<>>

(***************************************************************************)
(* Properties                                                              *)
(***************************************************************************)

C2_SetIdempotent ==
  [][ ( /\ IsCall("set")
        /\ ValidExtensionArg(last'.a1)
        /\ ValidMediaTypeArg(last'.a2) )
      => ( /\ ( /\ last.op = "set"
                /\ last.out = Returns(JSBoolean(TRUE))
                /\ last.a1 = last'.a1
                /\ Essence(last.a2.v) = Essence(last'.a2.v) )
              => ( /\ last'.out = Returns(JSBoolean(FALSE))
                   /\ CallChangesNothing )
           /\ ~HasAssociation(mediaTypes, last'.a1.v, last'.a2.v)
              => last'.out = Returns(JSBoolean(TRUE)) ) ]_vars

\* C3: delete with valid arguments returns false, changes nothing and writes
\* nothing when the extension is no key of the registry or its list holds no
\* entry with the essence of the media type.
C3_DeleteAbsent ==
  [][ ( /\ IsCall("delete")
        /\ ValidExtensionArg(last'.a1)
        /\ ValidMediaTypeArg(last'.a2)
        /\ ~HasAssociation(mediaTypes, last'.a1.v, last'.a2.v) )
      => ( /\ last'.out = Returns(JSBoolean(FALSE))
           /\ CallChangesNothing ) ]_vars

\* C4: delete with valid arguments of an association the registry holds
\* returns true and removes exactly the entry with that essence: the other
\* entries of the extension and the other extensions stay as they were, and
\* the key goes when its last entry goes.
C4_DeleteExisting ==
  [][ ( /\ IsCall("delete")
        /\ ValidExtensionArg(last'.a1)
        /\ ValidMediaTypeArg(last'.a2)
        /\ HasAssociation(mediaTypes, last'.a1.v, last'.a2.v) )
      => LET e == toLowerCase(last'.a1.v)
             before == ListOf(mediaTypes, e)
             after == ListOf(mediaTypes', e)
             others == { before[i] : i \in { j \in 1..Len(before) :
                                             Essence(before[j]) # Essence(last'.a2.v) } }
         IN /\ last'.out = Returns(JSBoolean(TRUE))
            /\ { after[i] : i \in 1..Len(after) } = others
            /\ (others = {}) => e \notin DOMAIN mediaTypes'
            /\ \A k \in DOMAIN mediaTypes \ {e} :
                 k \in DOMAIN mediaTypes' /\ mediaTypes'[k] = mediaTypes[k] ]_vars

\* C5: get of a string path whose derived extension is valid returns the list
\* the registry holds for that extension in lower case, the empty list when
\* it holds none, never anything that is not a list, and changes no state.
C5_GetReturnsList ==
  [][ ( /\ IsCall("get")
        /\ last'.a1.isString
        /\ IsExtension(DerivedExtension(last'.a1.v)) )
      => ( /\ last'.out = Returns(JSArray(ListOf(mediaTypes, DerivedExtension(last'.a1.v))))
           /\ CallChangesNothing ) ]_vars

\* C6: get of an argument that is not a string raises a TypeError; get of a
\* string whose derived extension is empty or outside the extension grammar,
\* as for "fileName", "fileName.", ".txt" and "", raises a SyntaxError; a get
\* that raises changes no state.
C6_GetErrors ==
  [][ IsCall("get")
      => ( /\ ~last'.a1.isString
              => last'.out.threw /\ last'.out.errName = "TypeError"
           /\ (last'.a1.isString /\ ~IsExtension(DerivedExtension(last'.a1.v)))
              => last'.out.threw /\ last'.out.errName = "SyntaxError"
           /\ last'.a1 \in { StringArg(path) : path \in {"fileName", "fileName.", ".txt", ""} }
              => last'.out.threw /\ last'.out.errName = "SyntaxError"
           /\ last'.out.threw => CallChangesNothing ) ]_vars

\* C6 witness: on a registry that holds an entry, get has been called with a
\* value that is no string and has raised a TypeError
C6_Witness ==
  /\ last.op = "get"
  /\ ~last.a1.isString
  /\ last.out.threw
  /\ last.out.errName = "TypeError"
  /\ DOMAIN mediaTypes # {}

\* C7: set and delete called with an invalid extension and an invalid media
\* type raise an aggregate error that carries both failures.
C7_BothInvalid ==
  [][ ( /\ IsCall("set") \/ IsCall("delete")
        /\ ~ValidExtensionArg(last'.a1)
        /\ ~ValidMediaTypeArg(last'.a2) )
      => ( /\ last'.out.threw
           /\ last'.out.errName = "AggregateError" ) ]_vars

\* The kind of error an invalid argument stands for
ErrorKind(arg) == IF arg.isString THEN "SyntaxError" ELSE "TypeError"

HasParameters(mediaType) == FirstIndexOf(mediaType, ";") > 0

\* C9: set and delete accept a media type that carries parameters, and the
\* comparison with the registered entries ignores the parameters: set of an
\* association the registry holds by essence returns false.
C9_ParametersAccepted ==
  [][ ( /\ IsCall("set") \/ IsCall("delete")
        /\ ValidExtensionArg(last'.a1)
        /\ ValidMediaTypeArg(last'.a2)
        /\ HasParameters(last'.a2.v) )
      => ( /\ ~(last'.out.threw /\ last'.out.errMsg = "Invalid mediaType")
           /\ (IsCall("set") /\ HasAssociation(mediaTypes, last'.a1.v, last'.a2.v))
              => last'.out = Returns(JSBoolean(FALSE)) ) ]_vars

\* C10: in every reachable state no list of the registry holds two entries
\* of the same essence.
C10_NoDuplicateEssence ==
  \A extension \in DOMAIN mediaTypes :
    LET list == ListOf(mediaTypes, extension)
    IN \A i, j \in 1..Len(list) : Essence(list[i]) = Essence(list[j]) => i = j

\* The string order of Array.prototype.sort: a list is sorted when no entry
\* is less than the entry before it
IsSorted(list) == \A i \in 1..(Len(list) - 1) : ~StringLess(list[i + 1], list[i])

\* C11: in every reachable state every list of the registry is sorted, the
\* list made when an extension is first seen with several media types too.
C11_ListsSorted ==
  \A extension \in DOMAIN mediaTypes : IsSorted(ListOf(mediaTypes, extension))

\* The step answers a HEAD request and the GET request follows
FetchIssued ==
  /\ cycles'[delivered'.c].phase = "network"
  /\ cycles'[delivered'.c].task[delivered'.source].st = "get"

\* The update() call settles in this step with null and has changed nothing
SettlesWithNothing(c) ==
  /\ cycles'[c].promise = Fulfilled(TRUE, EmptyObject)
  /\ emitted' = <<>>
  /\ UNCHANGED <<mediaTypes, versions, db>>

Associations(obj) ==
  UNION { { <<key, ListOf(obj, key)[i]>> : i \in 1..Len(ListOf(obj, key)) } : key \in DOMAIN obj }

\* The associations the sources merged so far have contributed to the call
ListedOf(cycle) ==
  UNION { Associations(cycle.list[s].content) : s \in { x \in Sources : cycle.list[x].listed } }

ListedAssociations(c) == ListedOf(cycles[c])

\* The full fetch failed: its status is not 200 or its body cannot be read
FetchFailed(res) == res.status # StatusOK \/ ~res.readable

\* The step handles the failure of a source: a request that fails, a probe
\* that answers another status than 200, or a full fetch that failed
SourceFails ==
  \/ delivered'.kind = "fail"
  \/ delivered'.kind = "probe" /\ delivered'.res.status # StatusOK
  \/ delivered'.kind = "load" /\ FetchFailed(delivered'.res)

\* C13: the failure of a source leaves the registry and the tokens alone and
\* does not end the call: the sources that succeeded are merged, and when the
\* call ends the snapshot holds the registry and the tokens, and the delta
\* holds what the succeeding sources have contributed and nothing else.
C13_PartialFailure ==
  [][ SourceFails
      => LET c == delivered'.c
         IN /\ UNCHANGED <<mediaTypes, versions>>
            /\ cycles'[c].promise.state # "rejected"
            /\ (cycles'[c].phase = "settled" /\ \E s \in Sources : cycles[c].list[s].listed)
               => ( /\ db' = Snapshot(mediaTypes', versions')
                    /\ cycles'[c].promise.state = "fulfilled"
                    /\ Associations(cycles'[c].promise.value) = ListedAssociations(c) ) ]_vars

\* The body was read and no line of it yields an association
NothingParsed(source, res) == res.readable /\ Len(load(source, res).content) = 0

\* C14: no failure of a source (a request that fails, a status other than
\* 200, a body that cannot be read or that yields nothing, a missing token)
\* makes the promise of update() reject.
C14_NeverRejects ==
  [][ ( \/ SourceFails
        \/ /\ delivered'.kind = "load"
           /\ delivered'.res.etag = "" \/ NothingParsed(delivered'.source, delivered'.res) )
      => cycles'[delivered'.c].promise.state # "rejected" ]_vars

\* C15: a full fetch that answers another status than 200 contributes
\* nothing: the registry and the stored token of the source stay as they
\* were, whatever the body and the headers hold.
C15_OnlySuccessfulFetchParsed ==
  [][ (delivered'.kind = "load" /\ delivered'.res.status # StatusOK)
      => ( /\ mediaTypes' = mediaTypes
           /\ versions'[delivered'.source] = versions[delivered'.source]
           /\ cycles'[delivered'.c].phase = "loading"
              => ~cycles'[delivered'.c].list[delivered'.source].listed ) ]_vars

\* The fragment of a source is accepted: the full fetch succeeded, it carries
\* a token and its body yields an association
FragmentAccepted(source, res) ==
  /\ ~FetchFailed(res)
  /\ res.etag # ""
  /\ ~NothingParsed(source, res)

\* C16: a step stores the token of the fetched response for the source whose
\* fragment it accepts, and leaves every other stored token as it was.
C16_TokenFrame ==
  [][ \A s \in Sources :
        versions'[s] = IF /\ delivered'.kind = "load"
                          /\ delivered'.source = s
                          /\ FragmentAccepted(s, delivered'.res)
                       THEN delivered'.res.etag
                       ELSE versions[s] ]_vars

\* C17: a fragment whose body was read and that has no token, or no
\* association, is discarded: the step changes neither the registry nor the
\* tokens nor the lists of the call; if the call ends with it and no other
\* source was merged, nothing is written and nothing is emitted; if other
\* sources were merged, the delta holds their associations only.
C17_FragmentDiscarded ==
  [][ ( /\ delivered'.kind = "load"
        /\ delivered'.res.readable
        /\ delivered'.res.etag = "" \/ NothingParsed(delivered'.source, delivered'.res) )
      => LET c == delivered'.c
         IN /\ UNCHANGED <<mediaTypes, versions>>
            /\ cycles'[c].phase = "loading" => cycles'[c].list = cycles[c].list
            /\ cycles'[c].phase = "settled"
               => IF \E s \in Sources : cycles[c].list[s].listed
                  THEN /\ cycles'[c].promise.state = "fulfilled"
                       /\ Associations(cycles'[c].promise.value) = ListedAssociations(c)
                  ELSE SettlesWithNothing(c) ]_vars

\* C17 witness: a body that yields associations has been loaded from an
\* answer without a token, and the call has ended with null on a registry
\* that is still empty
C17_Witness ==
  /\ delivered.kind = "load"
  /\ delivered.res.readable
  /\ delivered.res.etag = ""
  /\ ~NothingParsed(delivered.source, delivered.res)
  /\ cycles[delivered.c].promise = Fulfilled(TRUE, EmptyObject)
  /\ cycles[delivered.c].phase = "settled"
  /\ mediaTypes = EmptyObject

\* C18: an update() call that ends without an accepted fragment writes
\* nothing, emits nothing, leaves the registry and the tokens as they were
\* and resolves with null or an empty delta.
C18_NothingAccepted ==
  [][ ( /\ delivered'.kind # "none"
        /\ cycles[delivered'.c].phase # "settled"
        /\ cycles'[delivered'.c].phase = "settled"
        /\ \A s \in Sources : ~cycles[delivered'.c].list[s].listed
        /\ ~(delivered'.kind = "load" /\ FragmentAccepted(delivered'.source, delivered'.res)) )
      => ( /\ cycles'[delivered'.c].promise.state = "fulfilled"
           /\ DOMAIN cycles'[delivered'.c].promise.value = {}
           /\ emitted' = <<>>
           /\ UNCHANGED <<mediaTypes, versions, db>> ) ]_vars

\* C19: no 'update' event is emitted with a payload that holds no extension.
C19_NoEmptyUpdateEvent ==
  \A i \in 1..Len(emitted) :
    emitted[i].name = "update" => DOMAIN emitted[i].payload # {}

\* C20: the delta update() resolves with holds exactly the associations the
\* call has added. A step of the call adds associations only when it loads a
\* fragment, and removes none; what it adds was not in the registry and is
\* listed for the call; the delta is an object of non-empty lists that holds
\* the associations listed for the call, the last step's included.
C20_DeltaExact ==
  [][ delivered'.kind # "none"
      => LET c == delivered'.c
             added == Associations(mediaTypes') \ Associations(mediaTypes)
             promise == cycles'[c].promise
         IN /\ Associations(mediaTypes) \subseteq Associations(mediaTypes')
            /\ delivered'.kind # "load" => added = {}
            /\ cycles'[c].phase = "loading"
               => ListedOf(cycles'[c]) = ListedAssociations(c) \cup added
            /\ (cycles'[c].phase = "settled" /\ promise.state = "fulfilled")
               => ( /\ Associations(promise.value) = ListedAssociations(c) \cup added
                    /\ \A key \in DOMAIN promise.value :
                         promise.value[key].t = "array" /\ promise.value[key].a # <<>> ) ]_vars

\* C20 witness: update() has resolved on a registry that was empty with the
\* delta txt -> [text/plain], jpg -> [image/jpeg]
C20_Witness ==
  /\ delivered.kind = "load"
  /\ cycles[delivered.c].phase = "settled"
  /\ cycles[delivered.c].promise.state = "fulfilled"
  /\ cycles[delivered.c].promise.value =
       [key \in {"txt", "jpg"} |->
          JSArray(IF key = "txt" THEN <<"text/plain">> ELSE <<"image/jpeg">>)]
  /\ Associations(mediaTypes) = {<<"txt", "text/plain">>, <<"jpg", "image/jpeg">>}

\* The step settles update call c
Settles(c) == cycles[c].phase \in {"network", "loading"} /\ cycles'[c].phase = "settled"

UpdateEvents(events) == SelectSeq(events, LAMBDA e : e.name = "update")

\* C21: a synchronization that resolves with a non-empty delta has emitted
\* exactly one 'update' event, in the step that settles it, after DB.json was
\* written with the registry and the tokens, and the payload is the delta it
\* resolves with; a synchronization whose write of DB.json fails emits no
\* 'update' event; no other step of a synchronization emits one.
C21_UpdateEventAfterWrite ==
  [][\A c \in Cycles :
       /\ (Settles(c) /\ cycles'[c].promise.state = "fulfilled"
            /\ ~cycles'[c].promise.isNull /\ cycles'[c].promise.value # EmptyObject)
          => /\ emitted' = <<Event("update", cycles'[c].promise.value)>>
             /\ db' = Snapshot(mediaTypes', versions')
       /\ (Settles(c) /\ cycles'[c].promise.state = "rejected"
            /\ cycles'[c].promise.reason = WriteError)
          => /\ UpdateEvents(emitted') = <<>>
             /\ db' = db
       /\ (cycles'[c] # cycles[c] /\ ~Settles(c)) => UpdateEvents(emitted') = <<>>]_vars

\* A synchronization has just resolved with a non-empty delta and emitted it
C21_Witness ==
  \E c \in Cycles :
    /\ cycles[c].promise.state = "fulfilled"
    /\ cycles[c].promise.value # EmptyObject
    /\ emitted = <<Event("update", cycles[c].promise.value)>>
    /\ delivered.kind # "none"

\* The step starts a synchronization from the callback of a timer
TickStarts(c) ==
  /\ cycles[c].phase \in {"idle", "settled"}
  /\ cycles'[c].phase = "network"
  /\ cycles'[c].origin = "timer"

\* The step constructs the instance with, or assigns to updateInterval, the
\* value arg, and the call returns
Configures(arg) ==
  /\ IsCall("updateInterval") \/ IsCall("constructor")
  /\ last'.a1 = arg
  /\ ~last'.out.threw

\* C22: constructing with or assigning an interval below 0 cancels the
\* timer and creates none; while the interval is below 0 no timer is live and
\* no synchronization is started by a timer.
C22_NegativeDisables ==
  [][/\ \A arg \in IntervalArgs :
          (Configures(arg) /\ arg.v = "number" /\ NumberLess(arg.n, Zero))
            => (updateInterval' = arg.n /\ timers' = {})
     /\ NumberLess(updateInterval', Zero) => timers' = {}
     /\ \A c \in Cycles : TickStarts(c) => ~NumberLess(updateInterval, Zero)]_vars

\* updateInterval = -1 has just cancelled the timer of a running scheduler
C22_Witness ==
  /\ last.op = "updateInterval"
  /\ ~last.out.threw
  /\ NumberLess(updateInterval, Zero)
  /\ updateLoop # 0
  /\ timers = {}

\* The number an argument stands for: undefined stands for the default
IntervalOf(arg) == IF arg.v = "undefined" THEN DefaultUpdateInterval ELSE arg.n

\* C23: the instance has at most one live timer; it has one exactly when
\* updateInterval is 0 or more; the period of the timer is updateInterval;
\* constructing with or assigning a value of 0 or more (undefined standing for
\* 86400000) cancels the timer there was and starts a new one with that period.
C23_OneTimerAtInterval ==
  [][/\ Cardinality(timers') <= 1
     /\ (timers' # {}) <=> ~NumberLess(updateInterval', Zero)
     /\ \A timer \in timers' : timer.id = updateLoop' /\ timer.delay = updateInterval'
     /\ \A arg \in IntervalArgs :
          (Configures(arg) /\ arg.v \in {"number", "undefined"}
           /\ ~NumberLess(IntervalOf(arg), Zero))
            => /\ updateInterval' = IntervalOf(arg)
               /\ IsCall("updateInterval") => updateLoop' # updateLoop
               /\ timers' = {[id |-> updateLoop', delay |-> IntervalOf(arg)]}]_vars

\* C24: constructing with or assigning a value that is no finite number
\* throws TypeError('Invalid updateInterval') and leaves the stored interval,
\* the handle and the live timer as they were.
C24_InvalidIntervalRejected ==
  [][\A arg \in IntervalArgs :
       ((IsCall("updateInterval") \/ IsCall("constructor")) /\ last'.a1 = arg
        /\ arg.v \notin {"number", "undefined"})
         => /\ last'.out = Throws("TypeError", "Invalid updateInterval")
            /\ UNCHANGED <<updateInterval, updateLoop, timers>>]_vars

\* An assignment of a value that is no finite number has thrown while a timer
\* was live
C24_Witness ==
  /\ last.op = "updateInterval"
  /\ last.a1.v \notin {"number", "undefined"}
  /\ last.out.threw
  /\ timers # {}

\* C25: when a synchronization started by the timer fails, the error is emitted
\* as an 'error' event and is no unhandled rejection, whether or not 'error'
\* is listened to, and the timer stays live.
C25_TickErrorsEmitted ==
  [][\A c \in Cycles :
       (Settles(c) /\ cycles'[c].origin = "timer" /\ cycles'[c].promise.state = "rejected")
         => /\ emitted' = <<Event("error", cycles'[c].promise.reason)>>
            /\ unhandled' = <<>>
            /\ timers' = timers]_vars

\* The step is a call of set or delete that gets as far as fs.writeFileSync
ReachesWrite ==
  \/ /\ IsCall("set")
     /\ set(mediaTypes, versions, db, last'.a1, last'.a2, TRUE).wrote
  \/ /\ IsCall("delete")
     /\ delete(mediaTypes, versions, db, last'.a1, last'.a2, TRUE).wrote

\* C26: when fs.writeFileSync fails in set or delete, the call throws the
\* error of the write; it returns nothing and emits no event.
C26_WriteFailurePropagates ==
  [][(ReachesWrite /\ ~writable)
       => /\ last'.out = WriteError
          /\ emitted' = <<>>
          /\ unhandled' = <<>>
          /\ db' = db]_vars

\* A call of set or delete has thrown the error of the write
C26_Witness ==
  /\ last.op \in {"set", "delete"}
  /\ last.out = WriteError
  /\ ~writable

\* DB.json holds exactly the registry and the tokens of the instance
SnapshotIsCurrent(file, registry, tokens) ==
  /\ file.exists
  /\ file.form = "snapshot"
  /\ file.mediaTypes = registry
  /\ file.versions = tokens

\* C27: a call of set or delete that changes the registry writes DB.json, and
\* so does a synchronization that accepts a fragment; when the write succeeds,
\* DB.json holds exactly the registry and the tokens on completion; no call
\* returns having changed the registry without writing.
C27_MutationsPersisted ==
  [][/\ ((IsCall("set") \/ IsCall("delete")) /\ mediaTypes' # mediaTypes)
          => /\ last'.wrote \/ last'.out = WriteError
             /\ writable => SnapshotIsCurrent(db', mediaTypes', versions')
     /\ \A c \in Cycles :
          (Settles(c) /\ writable
           /\ \/ \E s \in Sources : cycles[c].list[s].listed
              \/ /\ delivered'.kind = "load"
                 /\ FragmentAccepted(delivered'.source, delivered'.res))
            => SnapshotIsCurrent(db', mediaTypes', versions')]_vars

\* C28: an instance constructed from the DB.json that a write of the current
\* registry and tokens produces has that registry and those tokens.
C28_SnapshotRoundTrip ==
  [][(IsCall("constructor") /\ ~last'.out.threw /\ missing = {}
      /\ db = Snapshot(mediaTypes, versions))
       => /\ mediaTypes' = mediaTypes
          /\ versions' = versions
          /\ missing' = {}]_vars

\* DB.json is missing, empty, no JSON, or lacks mediaTypes or versions
Unusable(file) == ~file.exists \/ file.form # "snapshot"

\* C29: constructing with a valid interval from a DB.json that is missing,
\* empty, not parseable or that lacks mediaTypes or versions succeeds and
\* gives the registry {} and blank tokens; the calls of get that follow return.
C29_StartupSurvivesSnapshot ==
  [][/\ (IsCall("constructor") /\ last'.a1 \in SomeIntervalArgs /\ Unusable(db))
          => /\ ~last'.out.threw
             /\ mediaTypes' = EmptyObject
             /\ versions' = BlankVersions
             /\ missing' = {}
     /\ (IsCall("get") /\ last'.a1 \in SomePaths) => ~last'.out.threw]_vars

\* The tokens of a line: what white space separates
Tokens(line) == SelectSeq(splitWhiteSpace(line, ""), LAMBDA piece : piece # "")

\* The pairs (extension, media type) a line stands for: none if it is a
\* comment, blank, or if its first token is no media type; else one for each
\* later token that is an extension
LinePairs(line) ==
  LET tokens == Tokens(line)
  IN IF tokens = <<>> \/ Head(trimStart(line)) = "#"
        \/ ~formatMediaType(toLowerCase(tokens[1]))
     THEN {}
     ELSE { <<toLowerCase(tokens[i]), toLowerCase(tokens[1])>> :
              i \in { j \in 2..Len(tokens) : formatExtension(tokens[j]) } }

ExpectedPairs(text) ==
  LET lines == splitLines(text, "")
  IN UNION { LinePairs(lines[i]) : i \in 1..Len(lines) }

ContentPairs(content) ==
  UNION { { <<content[i].k, content[i].v[j]>> : j \in 1..Len(content[i].v) } :
            i \in 1..Len(content) }

\* C30: #loadApache and #loadDebian return, for every document, the content
\* that holds exactly the pairs (extension, media type) of its lines: a
\* comment, a blank line and a line whose first token is no media type give
\* nothing, a token that is no extension is left out alone, and no line makes
\* the loader throw.
C30_TableParser ==
  (delivered.kind = "load" /\ delivered.c = 0)
    => /\ ~loadOut.threw
       /\ ContentPairs(loadOut.content) = ExpectedPairs(delivered.res.body)

\* The token every source publishes in SomeProbeResponses
PublishedToken == "v1"

\* The last call was a delete that returned true, and the association it
\* removed is not in the registry
Removed(extension, mediaType) ==
  /\ last.op = "delete"
  /\ last.out = Returns(JSBoolean(TRUE))
  /\ toLowerCase(last.a1.v) = extension
  /\ toLowerCase(last.a2.v) = mediaType
  /\ ~HasAssociation(mediaTypes, extension, mediaType)

\* The call reports the extension: in the delta it resolves with, or, while it
\* is still loading, in the lists the delta is made of
Reports(cycle, extension) ==
  IF cycle.phase = "settled"
  THEN cycle.promise.state = "fulfilled" /\ extension \in DOMAIN cycle.promise.value
  ELSE \E s \in Sources : cycle.list[s].listed /\ extension \in DOMAIN cycle.list[s].content

\* The call has sent no GET request so far
NoFetchYet(cycle) ==
  \A s \in Sources :
    cycle.task[s].st # "get" /\ ~(cycle.task[s].st = "fulfilled" /\ cycle.task[s].value)

TaskPending(cycle) == \E s \in Sources : cycle.task[s].st \in {"head", "get"}

\* C33: a step of a call changes the registry, the tokens or DB.json only when
\* it resumes the callback after the load of a body, with none of the three
\* requests of the call pending; as long as a request of the call is pending,
\* the steps of the call change none of them.
C33_JoinedBeforeMerge ==
  [][ delivered'.kind # "none"
      => LET c == delivered'.c
         IN /\ (mediaTypes' # mediaTypes \/ versions' # versions \/ db' # db)
               => /\ delivered'.kind = "load"
                  /\ cycles[c].phase = "loading"
                  /\ ~TaskPending(cycles[c])
            /\ (TaskPending(cycles[c]) \/ TaskPending(cycles'[c]))
               => /\ UNCHANGED <<mediaTypes, versions, db>>
                  /\ \A s \in Sources : ~cycles'[c].list[s].listed ]_vars

\* C33 witness: the first source has been merged into the registry, its token
\* stored, and the callback awaits the body of the second source
C33_Witness ==
  \E c \in Cycles :
    /\ delivered.kind = "load"
    /\ delivered.c = c
    /\ cycles[c].phase = "loading"
    /\ cycles[c].list[SourceOrder[1]].listed
    /\ versions[SourceOrder[1]] # ""
    /\ DOMAIN mediaTypes # {}
    /\ ~TaskPending(cycles[c])

\* The call has merged a source and has not yet written DB.json
MidMerge(cycle) == cycle.phase = "loading" /\ \E s \in Sources : cycle.list[s].listed

\* C34: between the first merge of a call and its write of DB.json no get, set
\* or delete runs and no other call takes a step: the only steps are those of
\* the call itself.
C34_MergeIsCritical ==
  [][ \A c \in Cycles :
        MidMerge(cycles[c])
          => /\ ~(IsCall("get") \/ IsCall("set") \/ IsCall("delete"))
             /\ delivered'.kind # "none" => delivered'.c = c ]_vars

\* The promise each of the three request chains settles with when the source
\* holds the outcome in store
SettledTask(outcome, force, stored) ==
  IF outcome.kind = "probeFails" THEN Task("rejected", FALSE)
  ELSE IF ~shouldFetch(outcome.probe, force, stored) THEN Task("fulfilled", FALSE)
  ELSE IF outcome.kind = "getFails" THEN Task("rejected", FALSE)
  ELSE Task("fulfilled", TRUE)

\* The callback run to its end, each awaited body being the planned one
RECURSIVE LoadAll(_, _)
LoadAll(st, outcome) ==
  IF st.cycle.phase = "loading"
  THEN LoadAll(afterLoad(st, outcome[SourceOrder[st.cycle.awaiting]].body, TRUE), outcome)
  ELSE st

\* What update(force) leaves when the requests are taken source by source in
\* the order apache, debian, nginx
InSourceOrder(p) ==
  LET start == [mediaTypes |-> p.mediaTypes, versions |-> p.versions, db |-> p.db,
                cycle |-> [IdleCycle EXCEPT
                             !.phase = "network", !.force = p.force,
                             !.task = [s \in Sources |->
                                         SettledTask(p.outcome[s], p.force, p.versions[s])]],
                emitted |-> <<>>, unhandled |-> <<>>, listeners |-> {}, missing |-> {}]
      end == LoadAll(whenAllSettled(start, TRUE), p.outcome)
  IN [mediaTypes |-> end.mediaTypes, versions |-> end.versions, db |-> end.db,
      promise |-> end.cycle.promise]

\* C35: whatever the order in which the requests of the three sources are
\* answered or fail, update(force) settles with the registry (the order of
\* every list included), the tokens, DB.json and the promise that the prior
\* registry, the prior tokens, force and the outcomes of the sources give when
\* the requests are taken in the order of the sources.
C35_MergeDeterministic ==
  [][ \A c \in Cycles :
        (plan.active /\ Settles(c))
          => [mediaTypes |-> mediaTypes', versions |-> versions', db |-> db',
              promise |-> cycles'[c].promise] = InSourceOrder(plan) ]_vars

\* C35 witness: a call on a registry that was not empty has settled with a
\* delta after the documents of the first and of the last source were merged
\* and their tokens replaced, the first two sources holding different bodies
C35_Witness ==
  \E c \in Cycles :
    /\ plan.active
    /\ DOMAIN plan.mediaTypes # {}
    /\ plan.outcome[SourceOrder[1]].kind = "answers"
    /\ plan.outcome[SourceOrder[3]].kind = "answers"
    /\ plan.outcome[SourceOrder[1]].body # plan.outcome[SourceOrder[2]].body
    /\ cycles[c].phase = "settled"
    /\ cycles[c].promise.state = "fulfilled"
    /\ ~cycles[c].promise.isNull
    /\ mediaTypes # plan.mediaTypes
    /\ versions[SourceOrder[1]] # plan.versions[SourceOrder[1]]
    /\ versions[SourceOrder[3]] # plan.versions[SourceOrder[3]]

\* C36: no step of update() takes anything from the registry: every extension
\* it held before the step it holds after it, with every media type of its
\* list, whatever the document and whichever requests fail.
C36_SyncMonotone ==
  [][ delivered'.kind # "none"
      => /\ DOMAIN mediaTypes \subseteq DOMAIN mediaTypes'
         /\ \A extension \in DOMAIN mediaTypes :
              \A i \in 1..Len(ListOf(mediaTypes, extension)) :
                includes(ListOf(mediaTypes', extension), ListOf(mediaTypes, extension)[i]) ]_vars

\* C36 witness: the load of a document has added a media type to the list of
\* an extension the registry already held
C36_Witness ==
  \E c \in Cycles :
    /\ delivered.kind = "load"
    /\ delivered.c = c
    /\ cycles[c].phase = "loading"
    /\ \E extension \in DOMAIN cycles[c].list[delivered.source].content
                         \ cycles[c].list[delivered.source].shared :
         Len(ListOf(mediaTypes, extension)) >= 2

\* C37: for every registry the calls can reach and every valid extension and
\* media type, in any letter case, whose association the registry lacks: when
\* set returns true, delete with the same arguments, called next, returns true
\* and leaves the registry that set was called on.
C37_SetDeleteRoundTrip ==
  \A extension \in ExtensionArgs, mediaType \in MediaTypeArgs :
    ( /\ ValidExtensionArg(extension)
      /\ ValidMediaTypeArg(mediaType)
      /\ "mediaTypes" \notin missing
      /\ ~HasAssociation(mediaTypes, extension.v, mediaType.v) )
    => LET added == set(mediaTypes, versions, db, extension, mediaType, TRUE)
           removed == delete(added.mediaTypes, versions, added.db, extension, mediaType, TRUE)
       IN added.out = Returns(JSBoolean(TRUE))
            => /\ removed.out = Returns(JSBoolean(TRUE))
               /\ removed.mediaTypes = mediaTypes

\* C38: in every reachable state every key of the registry is a lower-case
\* extension whose value is a list, not empty, of lower-case media types.
C38_RegistryWellFormed ==
  \A key \in DOMAIN mediaTypes :
    /\ IsExtension(key)
    /\ key = toLowerCase(key)
    /\ mediaTypes[key].t = "array"
    /\ Len(mediaTypes[key].a) >= 1
    /\ \A i \in 1..Len(mediaTypes[key].a) :
         /\ IsMediaType(mediaTypes[key].a[i])
         /\ mediaTypes[key].a[i] = toLowerCase(mediaTypes[key].a[i])

\* The registry and the tokens are those of DB.json, or those of a new
\* instance when there is no DB.json
AsPersisted(file, registry, tokens) ==
  IF file.exists THEN SnapshotIsCurrent(file, registry, tokens)
  ELSE registry = EmptyObject /\ tokens = BlankVersions

\* C39: a call of set or delete whose write of DB.json fails leaves the
\* registry and the tokens as they were before the call; an update() whose
\* write fails leaves them as DB.json has them; and a probe of update(false)
\* whose token DB.json does not hold for the source is followed by the GET
\* request.
C39_WriteFailureLeavesState ==
  [][ /\ ((IsCall("set") \/ IsCall("delete")) /\ last'.out = WriteError)
           => UNCHANGED <<mediaTypes, versions>>
      /\ \A c \in Cycles :
           (Settles(c) /\ cycles'[c].promise = Rejected(WriteError))
             => AsPersisted(db', mediaTypes', versions')
      /\ ( /\ delivered'.kind = "probe"
           /\ ~cycles[delivered'.c].force
           /\ delivered'.res.status = StatusOK
           /\ delivered'.res.etag # ""
           /\ ~(db.exists /\ db.form = "snapshot"
                 /\ db.versions[delivered'.source] = delivered'.res.etag) )
         => FetchIssued ]_vars

\* What a call in the state `prior` has in store
CallPlan(prior, call) ==
  [mediaTypes |-> prior.mediaTypes, versions |-> prior.versions, db |-> prior.db,
   force |-> call.force, outcome |-> call.outcome]

\* The registry two calls leave when the second starts after the first has
\* settled
OneAfterTheOther(prior, first, second) ==
  InSourceOrder(CallPlan(InSourceOrder(CallPlan(prior, first)), second)).mediaTypes

\* What the call reports: its delta once it has settled, its lists before
ReportedBy(cycle) ==
  IF cycle.phase = "settled" THEN Associations(cycle.promise.value) ELSE ListedOf(cycle)

C31_NginxAsTable ==
  (delivered.kind = "load" /\ delivered.c = 0 /\ delivered.source = "nginx")
    => \A statements \in StatementSeqs, layout \in Layouts :
         delivered.res.body = NginxDocument(statements, layout)
           => loadOut = loadApache([delivered.res EXCEPT !.body = joinLines(statements)])

====
